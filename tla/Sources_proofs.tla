--------------------------- MODULE Sources_proofs ---------------------------
(* The events of a source and the rows they have, for all documents, sources, *)
(* jobs and answers: first what flattening and selecting leave of a sequence, *)
(* then what each adapter makes of the documents it asks for, then the rows.  *)
EXTENDS Sources, TLAPS, SequenceTheorems, WellFoundedInduction

-----------------------------------------------------------------------------
(* Sequences.                                                              *)

LEMMA LeastNumber ==
    ASSUME NEW T \in SUBSET Nat, T # {}
    PROVE  \E n \in T : \A m \in T : n <= m
  <1> DEFINE R == {p \in Nat \X Nat : p[1] < p[2]}
  <1>1. IsWellFoundedOn(R, Nat)
      BY NatLessThanWellFounded, Zenon DEF OpToRel
  <1>2. \A m, n \in Nat : m < n => <<m, n>> \in R
      OBVIOUS
  <1> HIDE DEF R
  <1>3. T \subseteq Nat
      OBVIOUS
  <1>4. \E n \in T : \A m \in T : ~ (<<m, n>> \in R)
      BY <1>1, <1>3, WFMin
  <1>5. \A m, n \in Nat : ~ (m < n) => n <= m
      OBVIOUS
  <1> QED
      BY <1>2, <1>4, <1>5

\* The sums of FlattenSeq exist: f[m] joins the first m parts.
LEMMA PartialSums ==
    ASSUME NEW X, NEW s \in Seq(Seq(X)), NEW m \in 1 .. Len(s)
    PROVE  \E f \in [1 .. m -> Seq(X)] :
              \A i \in 1 .. m : f[i] = IF i = 1 THEN s[i] ELSE f[i - 1] \o s[i]
  <1> DEFINE Sums(f, k) == \A i \in 1 .. k : f[i] = IF i = 1 THEN s[i] ELSE f[i - 1] \o s[i]
             Bad == {k \in 1 .. Len(s) : ~ \E f \in [1 .. k -> Seq(X)] : Sums(f, k)}
  <1>1. Len(s) \in Nat /\ \A i \in 1 .. Len(s) : s[i] \in Seq(X)
      BY LenProperties
  <1>2. SUFFICES ASSUME Bad # {} PROVE FALSE
      OBVIOUS
  <1>3. Bad \in SUBSET Nat
      BY <1>1
  <1>4. PICK k \in Bad : \A n \in Bad : k <= n
      BY <1>2, <1>3, LeastNumber
  <1>5. k \in 1 .. Len(s) /\ ~ \E f \in [1 .. k -> Seq(X)] : Sums(f, k)
      BY <1>4
  <1>6. CASE k = 1
    <2> DEFINE f == [i \in 1 .. 1 |-> s[1]]
    <2>1. f \in [1 .. k -> Seq(X)] /\ Sums(f, k)
        BY <1>1, <1>5, <1>6
    <2> QED
        BY <1>5, <2>1
  <1>7. CASE k # 1
    <2>1. k - 1 \in 1 .. Len(s) /\ ~ (k <= k - 1)
        BY <1>1, <1>5, <1>7
    <2>2. k - 1 \notin Bad
        BY <1>4, <2>1
    <2>3. PICK h \in [1 .. k - 1 -> Seq(X)] : Sums(h, k - 1)
        BY <2>1, <2>2
    <2> DEFINE f == [i \in 1 .. k |-> IF i = k THEN h[k - 1] \o s[k] ELSE h[i]]
    <2>4. h[k - 1] \o s[k] \in Seq(X)
        BY <1>1, <1>5, <2>1, ConcatProperties
    <2>5. \A i \in 1 .. k : i # k => i \in 1 .. k - 1
        BY <1>1, <1>5
    <2>6. f \in [1 .. k -> Seq(X)]
        BY <2>4, <2>5
    <2>7. ASSUME NEW i \in 1 .. k
          PROVE  f[i] = IF i = 1 THEN s[i] ELSE f[i - 1] \o s[i]
      <3>1. CASE i = k
        <4>1. k - 1 \in 1 .. k /\ k - 1 # k /\ f[k - 1] = h[k - 1]
            BY <1>1, <1>5, <2>1
        <4> QED
            BY <1>7, <3>1, <4>1
      <3>2. CASE i # k
        <4>1. i \in 1 .. k - 1 /\ f[i] = h[i]
            BY <2>5, <3>2
        <4>2. h[i] = IF i = 1 THEN s[i] ELSE h[i - 1] \o s[i]
            BY <2>3, <4>1
        <4>3. i # 1 => i - 1 \in 1 .. k /\ i - 1 # k /\ f[i - 1] = h[i - 1]
            BY <1>1, <1>5, <4>1
        <4> QED
            BY <4>1, <4>2, <4>3
      <3> QED
          BY <3>1, <3>2
    <2> QED
        BY <1>5, <2>6, <2>7
  <1> QED
      BY <1>6, <1>7

LEMMA FlattenSums ==
    ASSUME NEW X, NEW s \in Seq(Seq(X)), Len(s) # 0
    PROVE  \E f \in [1 .. Len(s) -> Seq(X)] :
              /\ \A i \in 1 .. Len(s) : f[i] = IF i = 1 THEN s[i] ELSE f[i - 1] \o s[i]
              /\ FlattenSeq(s) = f[Len(s)]
  <1>1. Len(s) \in Nat /\ Len(s) \in 1 .. Len(s) /\ \A i \in 1 .. Len(s) : s[i] \in Seq(X)
      BY LenProperties
  <1>2. PICK h \in [1 .. Len(s) -> Seq(X)] :
            \A i \in 1 .. Len(s) : h[i] = IF i = 1 THEN s[i] ELSE h[i - 1] \o s[i]
    <2> DEFINE m == Len(s)
    <2>1. m \in 1 .. Len(s)
        BY <1>1
    <2> HIDE DEF m
    <2>2. \E f \in [1 .. m -> Seq(X)] :
             \A i \in 1 .. m : f[i] = IF i = 1 THEN s[i] ELSE f[i - 1] \o s[i]
        BY <2>1, PartialSums
    <2> QED
        BY <2>2 DEF m
  <1> DEFINE G(g) == [i \in 1 .. Len(s) |-> IF i = 1 THEN s[i] ELSE g[i - 1] \o s[i]]
             flatten == CHOOSE g : g = G(g)
             Bad == {k \in 1 .. Len(s) : flatten[k] \notin Seq(X)}
  <1>3. h = G(h)
      BY <1>2
  <1>4. FlattenSeq(s) = flatten[Len(s)]
      BY Zenon DEF FlattenSeq
  <1>5. flatten = G(flatten)
    <2> HIDE DEF G
    <2> QED
        BY <1>3, Zenon
  <1> HIDE DEF flatten
  <1>6. \A i \in 1 .. Len(s) : flatten[i] = IF i = 1 THEN s[i] ELSE flatten[i - 1] \o s[i]
      BY <1>5
  <1>7. Bad = {}
    <2>1. SUFFICES ASSUME Bad # {} PROVE FALSE
        OBVIOUS
    <2>2. Bad \in SUBSET Nat
        BY <1>1
    <2>3. PICK k \in Bad : \A n \in Bad : k <= n
        BY <2>1, <2>2, LeastNumber
    <2>4. CASE k = 1
        BY <1>1, <1>6, <2>3, <2>4
    <2>5. CASE k # 1
      <3>1. k - 1 \in 1 .. Len(s) /\ ~ (k <= k - 1)
          BY <1>1, <2>3, <2>5
      <3>2. flatten[k - 1] \in Seq(X)
          BY <2>3, <3>1
      <3>3. s[k] \in Seq(X) /\ flatten[k] = flatten[k - 1] \o s[k]
          BY <1>1, <1>6, <2>3, <2>5
      <3>4. flatten[k] \in Seq(X)
          BY <3>2, <3>3, ConcatProperties
      <3> QED
          BY <2>3, <3>4
    <2> QED
        BY <2>4, <2>5
  <1>8. flatten \in [1 .. Len(s) -> Seq(X)]
      BY <1>5, <1>7
  <1> QED
      BY <1>4, <1>6, <1>8

LEMMA ToSetOfConcat ==
    ASSUME NEW X, NEW s \in Seq(X), NEW t \in Seq(X)
    PROVE  s \o t \in Seq(X) /\ ToSet(s \o t) = ToSet(s) \cup ToSet(t)
  <1>1. /\ s \o t \in Seq(X) /\ Len(s \o t) = Len(s) + Len(t) /\ Len(s) \in Nat /\ Len(t) \in Nat
        /\ \A i \in 1 .. Len(s) + Len(t) :
              (s \o t)[i] = IF i <= Len(s) THEN s[i] ELSE t[i - Len(s)]
      BY ConcatProperties, LenProperties
  <1>2. DOMAIN s = 1 .. Len(s) /\ DOMAIN t = 1 .. Len(t) /\ DOMAIN (s \o t) = 1 .. Len(s) + Len(t)
      BY <1>1, LenProperties
  <1>3. ASSUME NEW x \in ToSet(s \o t) PROVE x \in ToSet(s) \cup ToSet(t)
    <2>1. PICK i \in 1 .. Len(s) + Len(t) : x = (s \o t)[i]
        BY <1>2 DEF ToSet
    <2>2. CASE i <= Len(s)
        BY <1>1, <1>2, <2>1, <2>2 DEF ToSet
    <2>3. CASE ~ (i <= Len(s))
      <3>1. i - Len(s) \in DOMAIN t /\ x = t[i - Len(s)]
          BY <1>1, <1>2, <2>1, <2>3
      <3> QED
          BY <3>1 DEF ToSet
    <2> QED
        BY <2>2, <2>3
  <1>4. ASSUME NEW x \in ToSet(s) PROVE x \in ToSet(s \o t)
    <2>1. PICK i \in 1 .. Len(s) : x = s[i]
        BY <1>2 DEF ToSet
    <2>2. i \in DOMAIN (s \o t) /\ x = (s \o t)[i]
        BY <1>1, <1>2, <2>1
    <2> QED
        BY <2>2 DEF ToSet
  <1>5. ASSUME NEW x \in ToSet(t) PROVE x \in ToSet(s \o t)
    <2>1. PICK i \in 1 .. Len(t) : x = t[i]
        BY <1>2 DEF ToSet
    <2>2. i + Len(s) \in DOMAIN (s \o t) /\ x = (s \o t)[i + Len(s)]
        BY <1>1, <1>2, <2>1
    <2> QED
        BY <2>2 DEF ToSet
  <1> QED
      BY <1>1, <1>3, <1>4, <1>5

LEMMA ToSetOfSeq ==
    ASSUME NEW X, NEW s \in Seq(X)
    PROVE  ToSet(s) \subseteq X /\ s \in Seq(ToSet(s))
  <1>1. Len(s) \in Nat /\ DOMAIN s = 1 .. Len(s) /\ \A i \in 1 .. Len(s) : s[i] \in X
      BY LenProperties
  <1>2. s = [i \in 1 .. Len(s) |-> s[i]] /\ \A i \in 1 .. Len(s) : s[i] \in ToSet(s)
      BY <1>1 DEF ToSet
  <1> QED
      BY <1>1, <1>2, IsASeq DEF ToSet

LEMMA ShortSeqs ==
    ASSUME NEW X, NEW x \in X
    PROVE  /\ <<x>> \in Seq(X) /\ ToSet(<<x>>) = {x}
           /\ << >> \in Seq(X) /\ ToSet(<< >>) = {}
  <1>1. DOMAIN <<x>> = {1} /\ <<x>>[1] = x
      OBVIOUS
  <1>2. ToSet(<<x>>) = {x}
      BY <1>1 DEF ToSet
  <1>3. DOMAIN << >> = {}
      OBVIOUS
  <1>4. ToSet(<< >>) = {}
      BY <1>3 DEF ToSet
  <1>5. <<x>> \in Seq(X) /\ << >> \in Seq(X)
      OBVIOUS
  <1> QED
      BY <1>2, <1>4, <1>5

LEMMA NoneToSet ==
    /\ \A X : << >> \in Seq(X)
    /\ ToSet(<< >>) = {}
  <1>1. \A X : << >> \in Seq(X)
      OBVIOUS
  <1>2. DOMAIN << >> = {}
      OBVIOUS
  <1>3. ToSet(<< >>) = {}
      BY <1>2 DEF ToSet
  <1> QED
      BY <1>1, <1>3

\* Flattening keeps exactly the elements of the parts.
LEMMA Flattened ==
    ASSUME NEW X, NEW s \in Seq(Seq(X))
    PROVE  /\ FlattenSeq(s) \in Seq(X)
           /\ ToSet(FlattenSeq(s)) = UNION {ToSet(s[i]) : i \in DOMAIN s}
  <1>1. Len(s) \in Nat /\ DOMAIN s = 1 .. Len(s) /\ \A i \in 1 .. Len(s) : s[i] \in Seq(X)
      BY LenProperties
  <1>2. CASE Len(s) = 0
    <2>1. FlattenSeq(s) = s /\ DOMAIN s = {} /\ s = << >>
        BY <1>1, <1>2, EmptySeq DEF FlattenSeq
    <2> QED
        BY <2>1, EmptySeq DEF ToSet
  <1>3. CASE Len(s) # 0
    <2> DEFINE upTo(k) == UNION {ToSet(s[i]) : i \in 1 .. k}
    <2>1. PICK f \in [1 .. Len(s) -> Seq(X)] :
              /\ \A i \in 1 .. Len(s) : f[i] = IF i = 1 THEN s[i] ELSE f[i - 1] \o s[i]
              /\ FlattenSeq(s) = f[Len(s)]
      <3>1. \E f \in [1 .. Len(s) -> Seq(X)] :
              /\ \A i \in 1 .. Len(s) : f[i] = IF i = 1 THEN s[i] ELSE f[i - 1] \o s[i]
              /\ FlattenSeq(s) = f[Len(s)]
          BY <1>3, FlattenSums, Zenon
      <3> QED
          BY <3>1, Zenon
    <2> DEFINE Bad == {k \in 1 .. Len(s) : ToSet(f[k]) # upTo(k)}
    <2>2. SUFFICES ASSUME Bad # {} PROVE FALSE
      <3>1. Len(s) \in 1 .. Len(s)
          BY <1>1, <1>3
      <3>2. f[Len(s)] \in Seq(X)
          BY <2>1, <3>1
      <3>3. Bad = {} => ToSet(f[Len(s)]) = upTo(Len(s))
          BY <3>1
      <3>4. upTo(Len(s)) = UNION {ToSet(s[i]) : i \in DOMAIN s}
          BY <1>1
      <3> QED
          BY <2>1, <3>2, <3>3, <3>4
    <2>3. Bad \in SUBSET Nat
        BY <1>1
    <2>4. PICK k \in Bad : \A n \in Bad : k <= n
        BY <2>2, <2>3, LeastNumber
    <2>5. CASE k = 1
      <3>1. 1 \in 1 .. Len(s)
          BY <1>1, <1>3
      <3>2. f[1] = s[1]
          BY <2>1, <3>1, Zenon
      <3>3. 1 .. 1 = {1}
          OBVIOUS
      <3>4. upTo(1) = ToSet(s[1])
          BY <3>3, Zenon
      <3> QED
          BY <2>4, <2>5, <3>2, <3>4
    <2>6. CASE k # 1
      <3>1. k - 1 \in 1 .. Len(s) /\ ~ (k <= k - 1) /\ k \in 1 .. Len(s)
          BY <1>1, <2>4, <2>6
      <3>2. ToSet(f[k - 1]) = upTo(k - 1)
          BY <2>4, <3>1
      <3>3. f[k] = f[k - 1] \o s[k]
          BY <2>1, <2>6, <3>1
      <3>4. ToSet(f[k]) = ToSet(f[k - 1]) \cup ToSet(s[k])
          BY <1>1, <2>1, <3>1, <3>3, ToSetOfConcat
      <3>5. 1 .. k = (1 .. k - 1) \cup {k}
          BY <3>1
      <3>6. upTo(k) = upTo(k - 1) \cup ToSet(s[k])
          BY <3>5
      <3> QED
          BY <2>4, <3>2, <3>4, <3>6
    <2> QED
        BY <2>5, <2>6
  <1> QED
      BY <1>2, <1>3

\* Only keeps the elements of a set.
LEMMA OnlyKeeps ==
    ASSUME NEW X, NEW s \in Seq(X), NEW S
    PROVE  Only(s, S) \in Seq(X \cap S) /\ ToSet(Only(s, S)) = ToSet(s) \cap S
  <1> DEFINE parts == [i \in DOMAIN s |-> IF s[i] \in S THEN <<s[i]>> ELSE << >>]
  <1>1. Len(s) \in Nat /\ DOMAIN s = 1 .. Len(s) /\ \A i \in 1 .. Len(s) : s[i] \in X
      BY LenProperties
  <1>2. \A i \in DOMAIN s : parts[i] \in Seq(X \cap S) /\ ToSet(parts[i]) = {s[i]} \cap S
    <2> SUFFICES ASSUME NEW i \in DOMAIN s
                 PROVE  parts[i] \in Seq(X \cap S) /\ ToSet(parts[i]) = {s[i]} \cap S
        OBVIOUS
    <2>1. CASE s[i] \in S
        BY <1>1, <2>1 DEF ToSet
    <2>2. CASE s[i] \notin S
      <3>1. parts[i] = << >> /\ ToSet(<< >>) = {}
          BY <2>2 DEF ToSet
      <3> QED
          BY <2>2, <3>1
    <2> QED
        BY <2>1, <2>2
  <1>3. parts \in Seq(Seq(X \cap S)) /\ DOMAIN parts = DOMAIN s
      BY <1>1, <1>2, IsASeq
  <1>4. Only(s, S) = FlattenSeq(parts)
      BY DEF Only
  <1> HIDE DEF parts
  <1>5. Only(s, S) \in Seq(X \cap S) /\ ToSet(Only(s, S)) = UNION {ToSet(parts[i]) : i \in DOMAIN s}
      BY <1>3, <1>4, Flattened
  <1>6. UNION {ToSet(parts[i]) : i \in DOMAIN s} = ToSet(s) \cap S
      BY <1>2 DEF ToSet
  <1> QED
      BY <1>5, <1>6

\* What is made of each element, in order.
LEMMA Mapped ==
    ASSUME NEW D, NEW X, NEW s \in Seq(D), NEW t \in [DOMAIN s -> X]
    PROVE  t \in Seq(X)
  BY LenProperties, IsASeq

\* The sequences made of each element, joined.
LEMMA Gathered ==
    ASSUME NEW D, NEW X, NEW s \in Seq(D), NEW t \in [DOMAIN s -> Seq(X)]
    PROVE  /\ FlattenSeq(t) \in Seq(X)
           /\ \A x : x \in ToSet(FlattenSeq(t)) <=> \E i \in DOMAIN s : x \in ToSet(t[i])
  <1>1. t \in Seq(Seq(X)) /\ DOMAIN t = DOMAIN s
    <2> DEFINE Y == Seq(X)
    <2>1. t \in [DOMAIN s -> Y]
        OBVIOUS
    <2> HIDE DEF Y
    <2>2. t \in Seq(Y)
        BY <2>1, Mapped
    <2> QED
        BY <2>2 DEF Y
  <1>2. FlattenSeq(t) \in Seq(X) /\ ToSet(FlattenSeq(t)) = UNION {ToSet(t[i]) : i \in DOMAIN t}
      BY <1>1, Flattened
  <1> QED
      BY <1>1, <1>2

-----------------------------------------------------------------------------
(* Documents: the items an adapter may make of one, and those it must.     *)

\* The ids that e may get as an event of document d.
OwnIds(d, e) ==
    (IF Published[e].uid # "none" THEN {Native(e)} ELSE {})
    \cup (IF Published[e].page # "none" /\ (Published[e].page = d => Format[d] = "feed")
          THEN {Path(Published[e].page)} ELSE {})
    \cup (IF Published[e].uid = "none" /\ Published[e].page = "none" THEN {Slug(e)} ELSE {})
    \cup (IF Published[e].uid = "none" /\ Published[e].page = "none" /\ Published[e].title = "none"
          THEN {<<"hash", d>>} ELSE {})
    \cup (IF Nameless(d, e) THEN {<<"hash", d, Published[e].title, t>> : t \in {0, 1}} ELSE {})

OwnItems(d) == UNION {[id : OwnIds(d, e), about : {e}] : e \in ToSet(Lists[d])}
Of(d) == OwnItems(d) \cup (IF Format[d] \in {"page", "event"} THEN {PageText(d)} ELSE {})
MockItems == [id : {<<"mock", query>> : query \in BOOLEAN}, about : {"mock"}]
Made(j) == (UNION {Of(d) : d \in Asked(j)}) \cup MockItems

\* The events of S that a document lists, and the first of them with a title.
Among(d, S) == ToSet(Lists[d]) \cap S
FirstOf(d) == {e \in Among(d, Named) : e = Head(Only(Lists[d], Named))}
TextOf(d, o) == IF Wordy(d, o) THEN {d} ELSE {}

\* Every event of E has an item.
Covers(items, E) == \A e \in E : \E x \in ToSet(items) : x.about = e

Outcomes == [Document -> {"answers", "fails", "garbage"}]

LEMMA ReadableIsListed ==
    ASSUME NEW d \in Document, NEW o \in Outcomes
    PROVE  /\ Readable(d, o) \in Seq(ToSet(Lists[d]))
           /\ o[d] = "answers" => Readable(d, o) = Lists[d]
  <1>1. Lists[d] \in Seq(Listing)
      BY SourcesAssumption
  <1>2. Lists[d] \in Seq(ToSet(Lists[d])) /\ << >> \in Seq(ToSet(Lists[d]))
      BY <1>1, ToSetOfSeq, EmptySeq
  <1> QED
      BY <1>2 DEF Readable

\* The constructors of items, each where it is used.
LEMMA ItemsAreOwn ==
    ASSUME NEW d \in Document, NEW e \in ToSet(Lists[d]), start \in {0, 1}
    PROVE  /\ Format[d] = "ics" => VEvent(d, e) \in OwnItems(d)
           /\ Format[d] \in {"page", "event"} => JsonLd(d, e) \in OwnItems(d)
           /\ Format[d] = "feed" => Entry(d, e) \in OwnItems(d)
           /\ Published[e].uid # "none" => ApiItem(e) \in OwnItems(d)
           /\ VEvent(d, e).about = e /\ JsonLd(d, e).about = e
           /\ Entry(d, e).about = e /\ ApiItem(e).about = e
  <1>1. ASSUME NEW i \in OwnIds(d, e) PROVE [id |-> i, about |-> e] \in OwnItems(d)
      BY <1>1 DEF OwnItems
  <1>2. Format[d] = "ics" => VEvent(d, e).id \in OwnIds(d, e)
      BY DEF VEvent, OwnIds, Nameless, Hash
  <1>3. Format[d] \in {"page", "event"} => JsonLd(d, e).id \in OwnIds(d, e)
      BY DEF JsonLd, OwnIds, Nameless, Hash
  <1>4. Format[d] = "feed" => Entry(d, e).id \in OwnIds(d, e)
      BY DEF Entry, OwnIds
  <1>5. Published[e].uid # "none" => ApiItem(e).id \in OwnIds(d, e)
      BY DEF ApiItem, OwnIds
  <1> QED
      BY <1>1, <1>2, <1>3, <1>4, <1>5 DEF VEvent, JsonLd, Entry, ApiItem

LEMMA OwnIsOf == \A d \in Document : OwnItems(d) \subseteq Of(d)
  BY DEF Of

\* An item for each of some events.
LEMMA Each ==
    ASSUME NEW E, NEW X, NEW s \in Seq(E), NEW t \in [DOMAIN s -> X],
           \A i \in DOMAIN s : t[i].about = s[i]
    PROVE  t \in Seq(X) /\ Covers(t, ToSet(s))
  <1>1. t \in Seq(X) /\ DOMAIN t = DOMAIN s
      BY Mapped
  <1>2. Covers(t, ToSet(s))
      BY <1>1 DEF Covers, ToSet
  <1> QED
      BY <1>1, <1>2

LEMMA CalendarMakes ==
    ASSUME NEW d \in Document, NEW o \in Outcomes, start \in {0, 1}, Format[d] = "ics"
    PROVE  /\ Calendar(d, o) \in Seq(Of(d))
           /\ o[d] = "answers" => Covers(Calendar(d, o), ToSet(Lists[d]))
  <1> DEFINE E == ToSet(Lists[d])
             s == Readable(d, o)
             t == Calendar(d, o)
  <1>1. s \in Seq(E) /\ (o[d] = "answers" => s = Lists[d])
      BY ReadableIsListed
  <1>2. \A i \in DOMAIN s : s[i] \in E
      BY <1>1, LenProperties
  <1>3. t = [i \in DOMAIN s |-> VEvent(d, s[i])]
      BY DEF Calendar, Items
  <1> HIDE DEF s, t, E
  <1>4. \A e \in E : VEvent(d, e) \in Of(d) /\ VEvent(d, e).about = e
      BY ItemsAreOwn, OwnIsOf DEF E
  <1>5. t \in [DOMAIN s -> Of(d)] /\ \A i \in DOMAIN s : t[i].about = s[i]
      BY <1>2, <1>3, <1>4
  <1>6. t \in Seq(Of(d)) /\ Covers(t, ToSet(s))
      BY <1>1, <1>5, Each
  <1> QED
      BY <1>1, <1>6 DEF t

\* A page of its own text where it lists nothing.
LEMMA TextMakes ==
    ASSUME NEW d \in Document, Format[d] \in {"page", "event"}
    PROVE  <<PageText(d)>> \in Seq(Of(d))
  <1>1. PageText(d) \in Of(d)
      BY DEF Of
  <1> QED
      BY <1>1, ShortSeqs

LEMMA TextIsCovered ==
    ASSUME NEW d, NEW o
    PROVE  Covers(<<PageText(d)>>, TextOf(d, o))
  <1>1. ToSet(<<PageText(d)>>) = {PageText(d)}
      BY ShortSeqs
  <1>2. PageText(d).about = d
      BY DEF PageText
  <1> QED
      BY <1>1, <1>2 DEF TextOf, Covers

LEMMA NamedOfListed ==
    ASSUME NEW d \in Document, NEW o \in Outcomes, NEW S
    PROVE  /\ Only(Readable(d, o), S) \in Seq(ToSet(Lists[d]))
           /\ Only(Readable(d, o), S) \in Seq(S)
           /\ o[d] = "answers" => ToSet(Only(Readable(d, o), S)) = Among(d, S)
  <1> DEFINE E == ToSet(Lists[d])
             s == Readable(d, o)
  <1>1. s \in Seq(E) /\ (o[d] = "answers" => s = Lists[d])
      BY ReadableIsListed
  <1> HIDE DEF E, s
  <1>2. Only(s, S) \in Seq(E \cap S) /\ ToSet(Only(s, S)) = ToSet(s) \cap S
      BY <1>1, OnlyKeeps
  <1>3. Only(s, S) \in Seq(E) /\ Only(s, S) \in Seq(S)
      BY <1>2, SeqMonotonic
  <1> QED
      BY <1>1, <1>2, <1>3 DEF E, s, Among

LEMMA JsonLdMakes ==
    ASSUME NEW d \in Document, NEW o \in Outcomes, start \in {0, 1},
           Format[d] \in {"page", "event"}
    PROVE  /\ JsonLdOrText(d, o) \in Seq(Of(d))
           /\ o[d] = "answers" => Covers(JsonLdOrText(d, o), Among(d, Named))
           /\ Format[d] = "page" => Covers(JsonLdOrText(d, o), TextOf(d, o))
  <1> DEFINE E == ToSet(Lists[d])
             s == Only(Readable(d, o), Named)
             t == [i \in DOMAIN s |-> JsonLd(d, s[i])]
  <1>1. s \in Seq(E) /\ (o[d] = "answers" => ToSet(s) = E \cap Named)
      BY NamedOfListed DEF Among
  <1>2. \A i \in DOMAIN s : s[i] \in E
      BY <1>1, LenProperties
  <1>3. JsonLdOrText(d, o) = IF Readable(d, o) = << >> THEN <<PageText(d)>> ELSE t
      BY DEF JsonLdOrText, Items
  <1> HIDE DEF s, E
  <1>4. \A e \in E : JsonLd(d, e) \in Of(d) /\ JsonLd(d, e).about = e
      BY ItemsAreOwn, OwnIsOf DEF E
  <1>5. t \in [DOMAIN s -> Of(d)] /\ \A i \in DOMAIN s : t[i].about = s[i]
      BY <1>2, <1>4
  <1> HIDE DEF t
  <1>6. t \in Seq(Of(d)) /\ Covers(t, ToSet(s))
      BY <1>1, <1>5, Each
  <1>7. o[d] = "answers" /\ Readable(d, o) = << >> => E = {}
    <2>1. ToSet(<< >>) = {}
        BY ShortSeqs
    <2> QED
        BY <2>1, ReadableIsListed DEF E
  <1>8. <<PageText(d)>> \in Seq(Of(d)) /\ Covers(<<PageText(d)>>, {})
      BY TextMakes DEF Covers
  <1>9. Format[d] = "page" => Covers(JsonLdOrText(d, o), TextOf(d, o))
    <2>1. CASE Readable(d, o) = << >>
        BY <1>3, <2>1, TextIsCovered
    <2>2. CASE Readable(d, o) # << >>
        BY <2>2 DEF TextOf, Wordy, Covers
    <2> QED
        BY <2>1, <2>2
  <1> QED
      BY <1>1, <1>3, <1>6, <1>7, <1>8, <1>9 DEF E, Among

\* The first event of an event page.
LEMMA FirstMakes ==
    ASSUME NEW d \in Document, NEW o \in Outcomes, start \in {0, 1}, Format[d] = "event"
    PROVE  /\ FirstJsonLdOrText(d, o) \in Seq(Of(d))
           /\ o[d] = "answers" => Covers(FirstJsonLdOrText(d, o), FirstOf(d))
           /\ Covers(FirstJsonLdOrText(d, o), TextOf(d, o))
  <1> DEFINE E == ToSet(Lists[d])
             s == Only(Readable(d, o), Named)
  <1>1. /\ s \in Seq(E)
        /\ o[d] = "answers" => Readable(d, o) = Lists[d] /\ ToSet(s) = E \cap Named
      BY NamedOfListed, ReadableIsListed DEF Among
  <1>2. FirstJsonLdOrText(d, o) = IF s = << >> THEN <<PageText(d)>> ELSE <<JsonLd(d, Head(s))>>
      BY DEF FirstJsonLdOrText
  <1>3. CASE s = << >>
    <2>1. ToSet(s) = {}
        BY <1>3, ShortSeqs
    <2>2. <<PageText(d)>> \in Seq(Of(d))
        BY TextMakes
    <2>3. FirstJsonLdOrText(d, o) = <<PageText(d)>>
        BY <1>2, <1>3
    <2>4. Covers(<<PageText(d)>>, TextOf(d, o))
        BY TextIsCovered
    <2> QED
        BY <1>1, <2>1, <2>2, <2>3, <2>4 DEF Covers, FirstOf, Among
  <1>4. CASE s # << >>
    <2>1. Head(s) \in E
        BY <1>1, <1>4, HeadTailProperties
    <2>2. JsonLd(d, Head(s)) \in Of(d) /\ JsonLd(d, Head(s)).about = Head(s)
        BY <2>1, ItemsAreOwn, OwnIsOf
    <2>3. FirstJsonLdOrText(d, o) = <<JsonLd(d, Head(s))>>
        BY <1>2, <1>4
    <2>4. ToSet(<<JsonLd(d, Head(s))>>) = {JsonLd(d, Head(s))}
        BY ShortSeqs
    <2>5. <<JsonLd(d, Head(s))>> \in Seq(Of(d))
        BY <2>2, ShortSeqs
    <2>6. TextOf(d, o) = {}
        BY <1>4 DEF TextOf, Wordy
    <2> QED
        BY <1>1, <2>2, <2>3, <2>4, <2>5, <2>6 DEF Covers, FirstOf, Among
  <1> QED
      BY <1>3, <1>4

\* FeedAdapter and the APIs, of the events in S.
FeedItems(d, o, S) == Items(LAMBDA e : Entry(d, e), Only(Readable(d, o), S))
ApiItems(s) == Items(ApiItem, s)

LEMMA EntriesMake ==
    ASSUME NEW d \in Document, NEW o \in Outcomes, NEW S, start \in {0, 1}, Format[d] = "feed"
    PROVE  /\ FeedItems(d, o, S) \in Seq(Of(d))
           /\ o[d] = "answers" => Covers(FeedItems(d, o, S), Among(d, S))
  <1> DEFINE E == ToSet(Lists[d])
             s == Only(Readable(d, o), S)
             t == FeedItems(d, o, S)
  <1>1. s \in Seq(E) /\ (o[d] = "answers" => ToSet(s) = E \cap S)
      BY NamedOfListed DEF Among
  <1>2. \A i \in DOMAIN s : s[i] \in E
      BY <1>1, LenProperties
  <1>3. t = [i \in DOMAIN s |-> Entry(d, s[i])]
      BY DEF FeedItems, Items
  <1>4. \A e \in E : Entry(d, e) \in Of(d) /\ Entry(d, e).about = e
      BY ItemsAreOwn, OwnIsOf
  <1> HIDE DEF s, t, E
  <1>5. t \in [DOMAIN s -> Of(d)] /\ \A i \in DOMAIN s : t[i].about = s[i]
      BY <1>2, <1>3, <1>4
  <1>6. t \in Seq(Of(d)) /\ Covers(t, ToSet(s))
      BY <1>1, <1>5, Each
  <1> QED
      BY <1>1, <1>6 DEF t, s, E, Among

LEMMA ApiMakes ==
    ASSUME NEW d \in Document, NEW S, start \in {0, 1},
           \A e \in ToSet(Lists[d]) : Published[e].uid # "none"
    PROVE  /\ ApiItems(Only(Lists[d], S)) \in Seq(Of(d))
           /\ Covers(ApiItems(Only(Lists[d], S)), Among(d, S))
           /\ ApiItems(Lists[d]) \in Seq(Of(d))
           /\ Covers(ApiItems(Lists[d]), ToSet(Lists[d]))
  <1> DEFINE E == ToSet(Lists[d])
  <1>1. Lists[d] \in Seq(E)
      BY SourcesAssumption, ToSetOfSeq
  <1>2. Only(Lists[d], S) \in Seq(E) /\ ToSet(Only(Lists[d], S)) = E \cap S
    <2> HIDE DEF E
    <2>1. Only(Lists[d], S) \in Seq(E \cap S) /\ ToSet(Only(Lists[d], S)) = ToSet(Lists[d]) \cap S
        BY <1>1, OnlyKeeps
    <2> QED
        BY <2>1, SeqMonotonic DEF E
  <1>3. \A e \in E : ApiItem(e) \in Of(d) /\ ApiItem(e).about = e
      BY ItemsAreOwn, OwnIsOf
  <1> HIDE DEF E
  <1>4. ASSUME NEW s \in Seq(E)
        PROVE  ApiItems(s) \in Seq(Of(d)) /\ Covers(ApiItems(s), ToSet(s))
    <2> DEFINE t == ApiItems(s)
    <2>1. t = [i \in DOMAIN s |-> ApiItem(s[i])]
        BY DEF ApiItems, Items
    <2>2. \A i \in DOMAIN s : s[i] \in E
        BY <1>4, LenProperties
    <2> HIDE DEF t
    <2>3. t \in [DOMAIN s -> Of(d)] /\ \A i \in DOMAIN s : t[i].about = s[i]
        BY <1>3, <2>1, <2>2
    <2>4. t \in Seq(Of(d)) /\ Covers(t, ToSet(s))
        BY <2>3, Each
    <2> QED
        BY <2>4 DEF t
  <1> QED
      BY <1>1, <1>2, <1>4 DEF E, Among

-----------------------------------------------------------------------------
(* The adapters: what fetch() returns is made of the documents it asked for,*)
(* and covers what it owes when it neither failed nor raised.               *)

\* The jobs there are: those of Job, and the sources of a scan.
Fits(j) ==
    /\ j.source \in Source /\ j.query \in BOOLEAN /\ j.urls \in Seq(Document) /\ j.geo \in BOOLEAN
    /\ \A d \in ToSet(j.urls) : Format[d] \in Reads(j.source)
    /\ TellsApart(j)

Stands(r, j, E) ==
    /\ r = [items |-> r.items, errors |-> r.errors, raised |-> r.raised]
    /\ r.items \in Seq(Made(j))
    /\ r.errors = {} /\ ~r.raised => Covers(r.items, E)

LEMMA UrlsFit ==
    ASSUME NEW j, Fits(j)
    PROVE  /\ UrlsOf(j) \in Seq(Document)
           /\ \A d \in ToSet(UrlsOf(j)) : Format[d] \in Reads(j.source)
  <1>1. /\ ConfiguredUrls[j.source] \in Seq(Document)
        /\ \A d \in ToSet(ConfiguredUrls[j.source]) : Format[d] \in Reads(j.source)
    <2>1. ConfiguredUrls[j.source] \in Seq(Document) /\ j.source \in Source
        BY SourcesAssumption DEF Fits
    <2>2. ToSet(ConfiguredUrls[j.source]) \subseteq Document
        BY <2>1, ToSetOfSeq
    <2> QED
        BY <2>1, <2>2, FormatsFit
  <1>2. j.urls \in Seq(Document) /\ \A d \in ToSet(j.urls) : Format[d] \in Reads(j.source)
      BY DEF Fits
  <1> QED
      BY <1>1, <1>2 DEF UrlsOf

LEMMA AnsweredAre ==
    ASSUME NEW ds \in Seq(Document), NEW o \in Outcomes
    PROVE  /\ Answered(ds, o) \in Seq(Document) /\ ToSet(Answered(ds, o)) \subseteq ToSet(ds)
           /\ \A d \in ToSet(ds) : o[d] # "fails" => d \in ToSet(Answered(ds, o))
  <1> DEFINE S == {d \in Document : o[d] # "fails"}
  <1>1. Only(ds, S) \in Seq(Document \cap S) /\ ToSet(Only(ds, S)) = ToSet(ds) \cap S
      BY OnlyKeeps
  <1>2. Only(ds, S) \in Seq(Document)
      BY <1>1, SeqMonotonic
  <1>3. ToSet(ds) \subseteq Document
      BY ToSetOfSeq
  <1> QED
      BY <1>1, <1>2, <1>3 DEF Answered

\* t has a part for each element of s.
Along(t, s) == t = [i \in DOMAIN s |-> t[i]]

\* What is made of documents the job asks for, joined.
LEMMA GatherMade ==
    ASSUME NEW j, NEW ds \in Seq(Document), ToSet(ds) \subseteq Asked(j),
           NEW t, Along(t, ds), \A i \in DOMAIN ds : t[i] \in Seq(Of(ds[i]))
    PROVE  /\ FlattenSeq(t) \in Seq(Made(j))
           /\ \A i \in DOMAIN ds : \A E : Covers(t[i], E) => Covers(FlattenSeq(t), E)
  <1>1. \A i \in DOMAIN ds : ds[i] \in ToSet(ds)
      BY DEF ToSet
  <1>2. \A d \in Asked(j) : Of(d) \subseteq Made(j)
      BY DEF Made
  <1>3. \A i \in DOMAIN ds : t[i] \in Seq(Made(j))
    <2> SUFFICES ASSUME NEW i \in DOMAIN ds PROVE t[i] \in Seq(Made(j))
        OBVIOUS
    <2>1. Of(ds[i]) \subseteq Made(j) /\ t[i] \in Seq(Of(ds[i]))
        BY <1>1, <1>2
    <2> QED
        BY <2>1, SeqMonotonic
  <1>4. t \in [DOMAIN ds -> Seq(Made(j))]
      BY <1>3 DEF Along
  <1>5. /\ FlattenSeq(t) \in Seq(Made(j))
        /\ \A x : x \in ToSet(FlattenSeq(t)) <=> \E i \in DOMAIN ds : x \in ToSet(t[i])
      BY <1>4, Gathered, Zenon
  <1>6. \A i \in DOMAIN ds : ToSet(t[i]) \subseteq ToSet(FlattenSeq(t))
      BY <1>5
  <1> QED
      BY <1>5, <1>6 DEF Covers

\* What is made of those that answered.
LEMMA AnsweredMade ==
    ASSUME NEW j, NEW ds \in Seq(Document), ToSet(ds) \subseteq Asked(j), NEW o \in Outcomes,
           NEW outs, outs = Answered(ds, o), NEW t, NEW C, NEW T, Along(t, outs),
           \A i \in DOMAIN outs : /\ t[i] \in Seq(Of(outs[i]))
                                  /\ o[outs[i]] = "answers" => Covers(t[i], C[outs[i]])
                                  /\ Covers(t[i], T[outs[i]])
    PROVE  /\ FlattenSeq(t) \in Seq(Made(j))
           /\ \A d \in ToSet(ds) : o[d] = "answers" => Covers(FlattenSeq(t), C[d])
           /\ \A d \in ToSet(ds) : o[d] # "fails" => Covers(FlattenSeq(t), T[d])
  <1>1. /\ outs \in Seq(Document) /\ ToSet(outs) \subseteq ToSet(ds)
        /\ \A d \in ToSet(ds) : o[d] # "fails" => d \in ToSet(outs)
      BY AnsweredAre
  <1>2. ToSet(outs) \subseteq Asked(j)
      BY <1>1
  <1>3. /\ FlattenSeq(t) \in Seq(Made(j))
        /\ \A i \in DOMAIN outs : \A F : Covers(t[i], F) => Covers(FlattenSeq(t), F)
      BY <1>1, <1>2, GatherMade
  <1>4. ASSUME NEW d \in ToSet(ds), o[d] = "answers"
        PROVE  Covers(FlattenSeq(t), C[d])
    <2>1. PICK i \in DOMAIN outs : outs[i] = d
        BY <1>1, <1>4 DEF ToSet
    <2> QED
        BY <1>3, <1>4, <2>1
  <1>5. ASSUME NEW d \in ToSet(ds), o[d] # "fails"
        PROVE  Covers(FlattenSeq(t), T[d])
    <2>1. PICK i \in DOMAIN outs : outs[i] = d
        BY <1>1, <1>5 DEF ToSet
    <2> QED
        BY <1>3, <2>1
  <1> QED
      BY <1>3, <1>4, <1>5

LEMMA OrMockStands ==
    ASSUME NEW j, j.query \in BOOLEAN, NEW E, NEW r, Stands(r, j, E)
    PROVE  Stands(OrMock(j, r), j, E)
  <1>1. CASE Mocks /\ r.items = << >> /\ r.errors = {}
    <2>1. Mock(j) \in MockItems
        BY DEF Mock, MockItems
    <2>2. OrMock(j, r) = [items |-> <<Mock(j)>>, errors |-> r.errors, raised |-> r.raised]
        BY <1>1 DEF OrMock, Stands
    <2>3. <<Mock(j)>> \in Seq(Made(j))
        BY <2>1, ShortSeqs DEF Made
    <2>4. ToSet(r.items) = {}
        BY <1>1, ShortSeqs
    <2>5. Covers(r.items, E) => Covers(<<Mock(j)>>, E)
        BY <2>4 DEF Covers
    <2> QED
        BY <2>2, <2>3, <2>5 DEF Stands
  <1>2. CASE ~ (Mocks /\ r.items = << >> /\ r.errors = {})
      BY <1>2 DEF OrMock
  <1> QED
      BY <1>1, <1>2

\* The feeds of FeedAdapter.
LEMMA FeedsStand ==
    ASSUME NEW j, NEW ds \in Seq(Document), NEW o \in Outcomes, NEW E, Fits(j), start \in {0, 1},
           ToSet(ds) \subseteq Asked(j), \A d \in ToSet(ds) : Format[d] = "feed",
           \A e \in E : \E d \in ToSet(ds) : o[d] = "answers" /\ e \in Among(d, Hits(j))
    PROVE  Stands(FetchFeeds(j, ds, o), j, E)
  <1> DEFINE outs == Answered(ds, o)
             K(d) == FeedItems(d, o, Hits(j))
             C == [d \in Document |-> Among(d, Hits(j))]
             T == [d \in Document |-> {}]
             t == [i \in DOMAIN outs |-> K(outs[i])]
             built == FlattenSeq(t)
             unparseable == {d \in ToSet(ds) : o[d] = "garbage"}
             r == Result(built, built, unparseable \cup Failures(ds, o), FALSE)
  <1>1. FetchFeeds(j, ds, o) = OrMock(j, r)
      BY DEF FetchFeeds, FlatMap, FeedItems
  <1>2. /\ outs \in Seq(Document) /\ ToSet(outs) \subseteq ToSet(ds) /\ ToSet(ds) \subseteq Document
        /\ \A i \in DOMAIN outs : outs[i] \in ToSet(ds)
    <2>1. outs \in Seq(Document) /\ ToSet(outs) \subseteq ToSet(ds) /\ ToSet(ds) \subseteq Document
        BY AnsweredAre, ToSetOfSeq
    <2> QED
        BY <2>1 DEF ToSet
  <1>3. \A d \in ToSet(ds) : /\ K(d) \in Seq(Of(d))
                             /\ o[d] = "answers" => Covers(K(d), C[d])
      BY <1>2, EntriesMake
  <1>4. \A d \in ToSet(ds) : C[d] = Among(d, Hits(j)) /\ T[d] = {}
      BY <1>2
  <1> HIDE DEF K, C, T
  <1>5. Along(t, outs) /\ \A i \in DOMAIN outs : t[i] = K(outs[i])
      BY DEF Along
  <1>6. outs = Answered(ds, o)
      OBVIOUS
  <1> HIDE DEF t, outs
  <1>7. \A i \in DOMAIN outs : /\ t[i] \in Seq(Of(outs[i]))
                               /\ o[outs[i]] = "answers" => Covers(t[i], C[outs[i]])
                               /\ Covers(t[i], T[outs[i]])
      BY <1>2, <1>3, <1>4, <1>5 DEF Covers
  <1>8. built \in Seq(Made(j)) /\ \A d \in ToSet(ds) : o[d] = "answers" => Covers(built, C[d])
      BY <1>5, <1>6, <1>7, AnsweredMade
  <1>9. Covers(built, E)
      BY <1>4, <1>8 DEF Covers
  <1> HIDE DEF built
  <1>10. Stands(r, j, E)
      BY <1>8, <1>9 DEF Stands, Result
  <1> HIDE DEF r
  <1> QED
      BY <1>1, <1>10, OrMockStands DEF Fits

LEMMA ResultStands ==
    ASSUME NEW j, NEW E, NEW built, NEW items \in Seq(Made(j)), NEW errors, NEW garbage,
           errors = {} /\ ~garbage => Covers(items, E)
    PROVE  Stands(Result(built, items, errors, garbage), j, E)
  BY DEF Stands, Result

LEMMA AskedAre ==
    ASSUME NEW j, Fits(j)
    PROVE  /\ Asked(j) \subseteq Document
           /\ j.source = "luma" => Asked(j) = ToSet(LumaAddresses(j))
           /\ j.source = "eventbrite" => Asked(j) = ToSet(Answers[j.source]) \cup ToSet(j.urls)
           /\ j.source \in {"telegram", "linkedin"} => Asked(j) = ToSet(UrlsOf(j))
           /\ j.source = "x" => Asked(j) = IF AsksX(j) THEN ToSet(Answers[j.source]) ELSE ToSet(UrlsOf(j))
           /\ j.source \in {"ticketmaster", "seatgeek"} => Asked(j) = ToSet(Answers[j.source])
           /\ Answers[j.source] \in Seq(Document) /\ LumaAddresses(j) \in Seq(Document)
           /\ j.source \in GeoAble \cup {"eventbrite", "telegram", "linkedin", "x"}
  <1>1. j.source \in Source /\ j.urls \in Seq(Document)
      BY DEF Fits
  <1>2. Answers[j.source] \in Seq(Document) /\ NearbyFeeds \in Seq(Document)
      BY <1>1, SourcesAssumption
  <1>3. UrlsOf(j) \in Seq(Document)
      BY UrlsFit
  <1>4. LumaAddresses(j) \in Seq(Document)
      BY <1>2, <1>3 DEF LumaAddresses
  <1>5. /\ Answers[j.source] \o j.urls \in Seq(Document)
        /\ ToSet(Answers[j.source] \o j.urls) = ToSet(Answers[j.source]) \cup ToSet(j.urls)
      BY <1>1, <1>2, ToSetOfConcat
  <1>6. /\ ToSet(Answers[j.source]) \subseteq Document /\ ToSet(UrlsOf(j)) \subseteq Document
        /\ ToSet(LumaAddresses(j)) \subseteq Document /\ ToSet(j.urls) \subseteq Document
      BY <1>1, <1>2, <1>3, <1>4, ToSetOfSeq
  <1>7. j.source \in GeoAble \cup {"eventbrite", "telegram", "linkedin", "x"}
      BY <1>1, SourcesAssumption
  <1>8. /\ j.source = "luma" => Asked(j) = ToSet(LumaAddresses(j))
        /\ j.source = "eventbrite" => Asked(j) = ToSet(Answers[j.source] \o j.urls)
        /\ j.source \in {"telegram", "linkedin"} => Asked(j) = ToSet(UrlsOf(j))
        /\ j.source = "x" => Asked(j) = ToSet(IF AsksX(j) THEN Answers[j.source] ELSE UrlsOf(j))
        /\ j.source \in {"ticketmaster", "seatgeek"} => Asked(j) = ToSet(Answers[j.source])
      BY DEF Asked
  <1>9. Asked(j) \subseteq Document
      BY <1>5, <1>6, <1>7, <1>8 DEF GeoAble
  <1> QED
      BY <1>2, <1>4, <1>5, <1>7, <1>8, <1>9

\* What an owed event is.
LEMMA OwedAre ==
    ASSUME NEW j, NEW o, NEW e \in OwedEvents(j, o)
    PROVE  \E d \in Asked(j) :
              /\ o[d] = "answers" /\ e \in ToSet(Lists[d])
              /\ Format[d] = "ics" \/ e \in Named
              /\ \/ j.source \in {"luma", "telegram"} \/ Format[d] = "feed"
                 \/ j.source = "eventbrite" /\ Format[d] = "api"
                 => e \in Hits(j)
              /\ GeoMode(j) => e \in Inside
              /\ Format[d] = "event" => e \in FirstOf(d)
  BY DEF OwedEvents, FirstOf, Among

\* An owed text is that of a page, and a calendar, a feed or an API owes none.
LEMMA OwedTextsAre ==
    ASSUME NEW j, NEW o, NEW e \in OwedTexts(j, o)
    PROVE  /\ e \in Asked(j) /\ Format[e] \in {"page", "event"} /\ o[e] # "fails"
           /\ e \in TextOf(e, o) /\ (j.source = "luma" /\ j.query => e \in TextHits)
  BY DEF OwedTexts, TextOf, Wordy

LEMMA OwedIs ==
    ASSUME NEW j, NEW o
    PROVE  /\ Owed(j, o) = OwedEvents(j, o) \cup OwedTexts(j, o)
           /\ (\A d \in Asked(j) : Format[d] \in {"feed", "api"}) => Owed(j, o) = OwedEvents(j, o)
  BY OwedTextsAre DEF Owed

LEMMA ListedAre ==
    ASSUME NEW d \in Document
    PROVE  ToSet(Lists[d]) \subseteq Listing
  BY SourcesAssumption, ToSetOfSeq

\* The items of an API's pages.
HasIds(d) == \A e \in ToSet(Lists[d]) : Published[e].uid # "none"
ApiPages(ds, S) == FlatMap(LAMBDA d : ApiItems(Only(Lists[d], S)), ds)
AllApiPages(ds) == FlatMap(LAMBDA d : ApiItems(Lists[d]), ds)

LEMMA PagesMade ==
    ASSUME NEW j, NEW ds \in Seq(Document), NEW S, ToSet(ds) \subseteq Asked(j), start \in {0, 1},
           \A d \in ToSet(ds) : HasIds(d)
    PROVE  /\ ApiPages(ds, S) \in Seq(Made(j)) /\ AllApiPages(ds) \in Seq(Made(j))
           /\ \A d \in ToSet(ds) : /\ Covers(ApiPages(ds, S), Among(d, S))
                                   /\ Covers(AllApiPages(ds), ToSet(Lists[d]))
  <1> DEFINE K(d) == ApiItems(Only(Lists[d], S))
             L(d) == ApiItems(Lists[d])
             t == [i \in DOMAIN ds |-> K(ds[i])]
             u == [i \in DOMAIN ds |-> L(ds[i])]
  <1>1. \A i \in DOMAIN ds : ds[i] \in ToSet(ds) /\ ds[i] \in Document
      BY ToSetOfSeq DEF ToSet
  <1>2. \A d \in ToSet(ds) : /\ K(d) \in Seq(Of(d)) /\ Covers(K(d), Among(d, S))
                             /\ L(d) \in Seq(Of(d)) /\ Covers(L(d), ToSet(Lists[d]))
    <2>1. ToSet(ds) \subseteq Document
        BY ToSetOfSeq
    <2> QED
        BY <2>1, ApiMakes DEF HasIds
  <1>3. ApiPages(ds, S) = FlattenSeq(t) /\ AllApiPages(ds) = FlattenSeq(u)
      BY DEF ApiPages, AllApiPages, FlatMap
  <1> HIDE DEF K, L
  <1>4. Along(t, ds) /\ Along(u, ds) /\ \A i \in DOMAIN ds : t[i] = K(ds[i]) /\ u[i] = L(ds[i])
      BY DEF Along
  <1> HIDE DEF t, u
  <1>5. \A i \in DOMAIN ds : t[i] \in Seq(Of(ds[i])) /\ u[i] \in Seq(Of(ds[i]))
      BY <1>1, <1>2, <1>4
  <1>6. /\ FlattenSeq(t) \in Seq(Made(j))
        /\ \A i \in DOMAIN ds : \A F : Covers(t[i], F) => Covers(FlattenSeq(t), F)
      BY <1>4, <1>5, GatherMade
  <1>7. /\ FlattenSeq(u) \in Seq(Made(j))
        /\ \A i \in DOMAIN ds : \A F : Covers(u[i], F) => Covers(FlattenSeq(u), F)
      BY <1>4, <1>5, GatherMade
  <1>8. ASSUME NEW d \in ToSet(ds)
        PROVE  Covers(FlattenSeq(t), Among(d, S)) /\ Covers(FlattenSeq(u), ToSet(Lists[d]))
    <2>1. PICK i \in DOMAIN ds : ds[i] = d
        BY DEF ToSet
    <2> QED
        BY <1>2, <1>4, <1>6, <1>7, <2>1
  <1> QED
      BY <1>3, <1>6, <1>7, <1>8

\* The items of the pages and of the event pages that answered.
Pages(ds, o) == FlatMap(LAMBDA d : JsonLdOrText(d, o), Answered(ds, o))
EventPages(ds, o) == FlatMap(LAMBDA d : FirstJsonLdOrText(d, o), Answered(ds, o))
LumaItems(j, d, o) ==
    IF GeoMode(j) \/ Format[d] = "ics" THEN Calendar(d, o) ELSE JsonLdOrText(d, o)
Lumas(j, ds, o) == FlatMap(LAMBDA d : LumaItems(j, d, o), Answered(ds, o))
LumaOwes(d) == IF Format[d] = "ics" THEN ToSet(Lists[d]) ELSE Among(d, Named)

LEMMA TextsMade ==
    ASSUME NEW j, NEW ds \in Seq(Document), ToSet(ds) \subseteq Asked(j), NEW o \in Outcomes,
           start \in {0, 1}
    PROVE  /\ (\A d \in ToSet(ds) : Format[d] = "page") =>
                 /\ Pages(ds, o) \in Seq(Made(j))
                 /\ \A d \in ToSet(ds) : o[d] = "answers" => Covers(Pages(ds, o), Among(d, Named))
                 /\ \A d \in ToSet(ds) : o[d] # "fails" => Covers(Pages(ds, o), TextOf(d, o))
           /\ (\A d \in ToSet(ds) : Format[d] = "event") =>
                 /\ EventPages(ds, o) \in Seq(Made(j))
                 /\ \A d \in ToSet(ds) : o[d] = "answers" => Covers(EventPages(ds, o), FirstOf(d))
                 /\ \A d \in ToSet(ds) : o[d] # "fails" => Covers(EventPages(ds, o), TextOf(d, o))
           /\ (\A d \in ToSet(ds) : Format[d] = "ics" \/ (~GeoMode(j) /\ Format[d] = "page")) =>
                 /\ Lumas(j, ds, o) \in Seq(Made(j))
                 /\ \A d \in ToSet(ds) : o[d] = "answers" => Covers(Lumas(j, ds, o), LumaOwes(d))
                 /\ \A d \in ToSet(ds) : o[d] # "fails" => Covers(Lumas(j, ds, o), TextOf(d, o))
  <1> DEFINE outs == Answered(ds, o)
             K(d) == JsonLdOrText(d, o)
             L(d) == FirstJsonLdOrText(d, o)
             M(d) == LumaItems(j, d, o)
             k == [i \in DOMAIN outs |-> K(outs[i])]
             l == [i \in DOMAIN outs |-> L(outs[i])]
             m == [i \in DOMAIN outs |-> M(outs[i])]
             named == [d \in Document |-> Among(d, Named)]
             first == [d \in Document |-> FirstOf(d)]
             luma == [d \in Document |-> LumaOwes(d)]
             text == [d \in Document |-> TextOf(d, o)]
  <1>1. /\ ToSet(ds) \subseteq Document /\ outs = Answered(ds, o)
        /\ \A i \in DOMAIN outs : outs[i] \in ToSet(ds)
    <2>1. ToSet(outs) \subseteq ToSet(ds) /\ ToSet(ds) \subseteq Document
        BY AnsweredAre, ToSetOfSeq
    <2> QED
        BY <2>1 DEF ToSet
  <1>2. \A d \in Document : /\ named[d] = Among(d, Named) /\ first[d] = FirstOf(d) /\ luma[d] = LumaOwes(d)
                           /\ text[d] = TextOf(d, o)
      OBVIOUS
  <1> HIDE DEF named, first, luma, text
  <1>3. ASSUME NEW d \in Document
        PROVE  /\ Format[d] = "page" => /\ K(d) \in Seq(Of(d))
                                        /\ o[d] = "answers" => Covers(K(d), named[d])
                                        /\ Covers(K(d), text[d])
               /\ Format[d] = "event" => /\ L(d) \in Seq(Of(d))
                                         /\ o[d] = "answers" => Covers(L(d), first[d])
                                         /\ Covers(L(d), text[d])
               /\ Format[d] = "ics" \/ (~GeoMode(j) /\ Format[d] = "page") =>
                     /\ M(d) \in Seq(Of(d))
                     /\ o[d] = "answers" => Covers(M(d), luma[d])
                     /\ Covers(M(d), text[d])
    <2>1. Format[d] \in {"page", "event"} =>
              /\ JsonLdOrText(d, o) \in Seq(Of(d))
              /\ o[d] = "answers" => Covers(JsonLdOrText(d, o), Among(d, Named))
              /\ Format[d] = "page" => Covers(JsonLdOrText(d, o), TextOf(d, o))
        BY JsonLdMakes
    <2>2. Format[d] = "event" =>
              /\ FirstJsonLdOrText(d, o) \in Seq(Of(d))
              /\ o[d] = "answers" => Covers(FirstJsonLdOrText(d, o), FirstOf(d))
              /\ Covers(FirstJsonLdOrText(d, o), TextOf(d, o))
        BY FirstMakes
    <2>3. Format[d] = "ics" =>
              /\ Calendar(d, o) \in Seq(Of(d))
              /\ o[d] = "answers" => Covers(Calendar(d, o), ToSet(Lists[d]))
        BY CalendarMakes
    <2>4. Format[d] = "ics" => Covers(Calendar(d, o), TextOf(d, o))
        BY DEF Covers, TextOf, Wordy
    <2> QED
        BY <1>2, <2>1, <2>2, <2>3, <2>4 DEF LumaItems, LumaOwes
  <1>4. /\ Pages(ds, o) = FlattenSeq(k) /\ EventPages(ds, o) = FlattenSeq(l)
        /\ Lumas(j, ds, o) = FlattenSeq(m)
      BY DEF Pages, EventPages, Lumas, FlatMap
  <1> HIDE DEF K, L, M
  <1>5. /\ Along(k, outs) /\ Along(l, outs) /\ Along(m, outs)
        /\ \A i \in DOMAIN outs : k[i] = K(outs[i]) /\ l[i] = L(outs[i]) /\ m[i] = M(outs[i])
      BY DEF Along
  <1> HIDE DEF k, l, m, outs
  <1>6. ASSUME \A d \in ToSet(ds) : Format[d] = "page"
        PROVE  /\ FlattenSeq(k) \in Seq(Made(j))
               /\ \A d \in ToSet(ds) : o[d] = "answers" => Covers(FlattenSeq(k), named[d])
               /\ \A d \in ToSet(ds) : o[d] # "fails" => Covers(FlattenSeq(k), text[d])
    <2>1. \A i \in DOMAIN outs : /\ k[i] \in Seq(Of(outs[i]))
                                 /\ o[outs[i]] = "answers" => Covers(k[i], named[outs[i]])
                                 /\ Covers(k[i], text[outs[i]])
        BY <1>1, <1>3, <1>5, <1>6
    <2> QED
        BY <1>1, <1>5, <2>1, AnsweredMade
  <1>7. ASSUME \A d \in ToSet(ds) : Format[d] = "event"
        PROVE  /\ FlattenSeq(l) \in Seq(Made(j))
               /\ \A d \in ToSet(ds) : o[d] = "answers" => Covers(FlattenSeq(l), first[d])
               /\ \A d \in ToSet(ds) : o[d] # "fails" => Covers(FlattenSeq(l), text[d])
    <2>1. \A i \in DOMAIN outs : /\ l[i] \in Seq(Of(outs[i]))
                                 /\ o[outs[i]] = "answers" => Covers(l[i], first[outs[i]])
                                 /\ Covers(l[i], text[outs[i]])
        BY <1>1, <1>3, <1>5, <1>7
    <2> QED
        BY <1>1, <1>5, <2>1, AnsweredMade
  <1>8. ASSUME \A d \in ToSet(ds) : Format[d] = "ics" \/ (~GeoMode(j) /\ Format[d] = "page")
        PROVE  /\ FlattenSeq(m) \in Seq(Made(j))
               /\ \A d \in ToSet(ds) : o[d] = "answers" => Covers(FlattenSeq(m), luma[d])
               /\ \A d \in ToSet(ds) : o[d] # "fails" => Covers(FlattenSeq(m), text[d])
    <2>1. \A i \in DOMAIN outs : /\ m[i] \in Seq(Of(outs[i]))
                                 /\ o[outs[i]] = "answers" => Covers(m[i], luma[outs[i]])
                                 /\ Covers(m[i], text[outs[i]])
        BY <1>1, <1>3, <1>5, <1>8
    <2> QED
        BY <1>1, <1>5, <2>1, AnsweredMade
  <1> QED
      BY <1>1, <1>2, <1>4, <1>6, <1>7, <1>8

LEMMA LumaStands ==
    ASSUME NEW j, Fits(j), j.source = "luma", NEW o \in Outcomes, start \in {0, 1}
    PROVE  Stands(FetchLuma(j, o), j, Owed(j, o))
  <1> DEFINE ds == LumaAddresses(j)
             built == Lumas(j, ds, o)
             kept == {item \in ToSet(built) :
                         IF item.about \in Listing
                         THEN item.about \in Hits(j) /\ (GeoMode(j) => item.about \in Inside)
                         ELSE j.query => item.about \in TextHits}
             items == Only(built, kept)
             r == Result(built, items, Failures(ds, o), FALSE)
             E == Owed(j, o)
  <1>1. FetchLuma(j, o) = IF GeoMode(j) \/ ds # << >> THEN r ELSE OrMock(j, r)
      BY DEF FetchLuma, Lumas, LumaItems
  <1>2. ds \in Seq(Document) /\ Asked(j) = ToSet(ds) /\ ToSet(ds) \subseteq Document
      BY AskedAre
  <1>3. \A d \in ToSet(ds) : Format[d] = "ics" \/ (~GeoMode(j) /\ Format[d] = "page")
    <2>1. CASE GeoMode(j)
      <3>1. ds = NearbyFeeds
          BY <2>1 DEF LumaAddresses
      <3> QED
          BY <3>1, FormatsFit
    <2>2. CASE ~GeoMode(j)
      <3>1. ds = UrlsOf(j) /\ Reads(j.source) = {"ics", "page"}
          BY <2>2 DEF LumaAddresses, Reads
      <3> QED
          BY <2>2, <3>1, UrlsFit
    <2> QED
        BY <2>1, <2>2
  <1> HIDE DEF ds
  <1>4. /\ built \in Seq(Made(j))
        /\ \A d \in ToSet(ds) : o[d] = "answers" => Covers(built, LumaOwes(d))
        /\ \A d \in ToSet(ds) : o[d] # "fails" => Covers(built, TextOf(d, o))
      BY <1>2, <1>3, TextsMade
  <1>5. items \in Seq(Made(j)) /\ ToSet(items) = ToSet(built) \cap kept
    <2> HIDE DEF built, kept
    <2>1. items \in Seq(Made(j) \cap kept) /\ ToSet(items) = ToSet(built) \cap kept
        BY <1>4, OnlyKeeps
    <2> QED
        BY <2>1, SeqMonotonic
  <1> HIDE DEF built, items
  <1>6. ASSUME NEW e \in OwedEvents(j, o)
        PROVE  \E x \in ToSet(items) : x.about = e
    <2>1. PICK d \in Asked(j) :
              /\ o[d] = "answers" /\ e \in ToSet(Lists[d]) /\ (Format[d] = "ics" \/ e \in Named)
              /\ e \in Hits(j) /\ (GeoMode(j) => e \in Inside)
        BY OwedAre
    <2>2. d \in ToSet(ds) /\ e \in LumaOwes(d) /\ e \in Listing
        BY <1>2, <2>1, ListedAre DEF LumaOwes, Among
    <2>3. PICK x \in ToSet(built) : x.about = e
        BY <1>4, <2>1, <2>2 DEF Covers
    <2> QED
        BY <1>5, <2>1, <2>2, <2>3
  <1>7. ASSUME NEW e \in OwedTexts(j, o)
        PROVE  \E x \in ToSet(items) : x.about = e
    <2>1. /\ e \in ToSet(ds) /\ o[e] # "fails" /\ e \in TextOf(e, o) /\ e \notin Listing
          /\ j.query => e \in TextHits
        BY <1>2, OwedTextsAre, SourcesAssumption
    <2>2. PICK x \in ToSet(built) : x.about = e
        BY <1>4, <2>1 DEF Covers
    <2> QED
        BY <1>5, <2>1, <2>2
  <1>8. Covers(items, E)
      BY <1>6, <1>7, OwedIs DEF Covers
  <1> HIDE DEF E
  <1>9. Stands(r, j, E)
      BY <1>5, <1>8, ResultStands
  <1> HIDE DEF r
  <1> QED
      BY <1>1, <1>9, OrMockStands DEF E, Fits

LEMMA EventbriteStands ==
    ASSUME NEW j, Fits(j), j.source = "eventbrite", NEW o \in Outcomes, start \in {0, 1}
    PROVE  Stands(FetchEventbrite(j, o), j, Owed(j, o))
  <1> DEFINE api == Answers[j.source]
             own == IF AllPagesRead(api, o) THEN ApiPages(api, Hits(j)) ELSE << >>
             pages == Pages(j.urls, o)
             built == own \o pages
             down == IF AllPagesRead(api, o) THEN {} ELSE {"api"}
             errors == down \cup Failures(j.urls, o)
             r == Result(built, built, errors, ApiGarbage(api, o))
             E == Owed(j, o)
  <1>1. FetchEventbrite(j, o) = OrMock(j, r)
      BY DEF FetchEventbrite, ApiPages, ApiItems, Pages
  <1>2. /\ api \in Seq(Document) /\ j.urls \in Seq(Document) /\ j.source \in Source
        /\ Asked(j) = ToSet(api) \cup ToSet(j.urls) /\ Asked(j) \subseteq Document
      BY AskedAre DEF Fits
  <1>3. \A d \in ToSet(j.urls) : Format[d] = "page"
      BY DEF Fits, Reads
  <1>4. \A d \in ToSet(api) : Format[d] = "api" /\ HasIds(d)
      BY <1>2, FormatsFit DEF HasIds
  <1> HIDE DEF api
  <1>5. /\ pages \in Seq(Made(j))
        /\ \A d \in ToSet(j.urls) : o[d] = "answers" => Covers(pages, Among(d, Named))
        /\ \A d \in ToSet(j.urls) : o[d] # "fails" => Covers(pages, TextOf(d, o))
      BY <1>2, <1>3, TextsMade
  <1>6. /\ ApiPages(api, Hits(j)) \in Seq(Made(j))
        /\ \A d \in ToSet(api) : Covers(ApiPages(api, Hits(j)), Among(d, Hits(j)))
    <2>1. ToSet(api) \subseteq Asked(j)
        BY <1>2
    <2> QED
        BY <1>2, <1>4, <2>1, PagesMade
  <1>7. own \in Seq(Made(j))
      BY <1>6
  <1> HIDE DEF own, pages
  <1>8. built \in Seq(Made(j)) /\ ToSet(built) = ToSet(own) \cup ToSet(pages)
      BY <1>5, <1>7, ToSetOfConcat
  <1>9. ASSUME AllPagesRead(api, o), NEW e \in OwedEvents(j, o)
        PROVE  \E x \in ToSet(built) : x.about = e
    <2>1. PICK d \in Asked(j) :
              /\ o[d] = "answers" /\ e \in ToSet(Lists[d]) /\ (Format[d] = "ics" \/ e \in Named)
              /\ Format[d] = "api" => e \in Hits(j)
        BY OwedAre
    <2>2. CASE d \in ToSet(api)
      <3>1. PICK x \in ToSet(own) : x.about = e
          BY <1>4, <1>6, <1>9, <2>1, <2>2 DEF Covers, Among, own
      <3> QED
          BY <1>8, <3>1
    <2>3. CASE d \in ToSet(j.urls)
      <3>1. PICK x \in ToSet(pages) : x.about = e
          BY <1>3, <1>5, <2>1, <2>3 DEF Covers, Among
      <3> QED
          BY <1>8, <3>1
    <2> QED
        BY <1>2, <2>2, <2>3
  <1>10. ASSUME NEW e \in OwedTexts(j, o)
         PROVE  \E x \in ToSet(built) : x.about = e
    <2>1. e \in ToSet(j.urls) /\ o[e] # "fails" /\ e \in TextOf(e, o)
        BY <1>2, <1>4, OwedTextsAre
    <2>2. PICK x \in ToSet(pages) : x.about = e
        BY <1>5, <2>1 DEF Covers
    <2> QED
        BY <1>8, <2>2
  <1>11. errors = {} => Covers(built, E)
      BY <1>9, <1>10, OwedIs DEF Covers
  <1> HIDE DEF built, errors, E
  <1>12. Stands(r, j, E)
      BY <1>8, <1>11, ResultStands
  <1> HIDE DEF r
  <1> QED
      BY <1>1, <1>12, OrMockStands DEF E, Fits

LEMMA TelegramStands ==
    ASSUME NEW j, Fits(j), j.source = "telegram", NEW o \in Outcomes, start \in {0, 1}
    PROVE  Stands(FetchFeeds(j, UrlsOf(j), o), j, Owed(j, o))
  <1> DEFINE ds == UrlsOf(j)
             E == Owed(j, o)
  <1>1. ds \in Seq(Document) /\ Asked(j) = ToSet(ds)
      BY AskedAre, UrlsFit
  <1>2. \A d \in ToSet(ds) : Format[d] = "feed"
      BY UrlsFit DEF Reads
  <1>3. \A e \in E : \E d \in ToSet(ds) : o[d] = "answers" /\ e \in Among(d, Hits(j))
    <2> SUFFICES ASSUME NEW e \in E
                 PROVE  \E d \in ToSet(ds) : o[d] = "answers" /\ e \in Among(d, Hits(j))
        OBVIOUS
    <2>1. e \in OwedEvents(j, o)
        BY <1>1, <1>2, OwedIs
    <2>2. PICK d \in Asked(j) :
              o[d] = "answers" /\ e \in ToSet(Lists[d]) /\ e \in Hits(j)
        BY <2>1, OwedAre
    <2> QED
        BY <1>1, <2>2 DEF Among
  <1> HIDE DEF ds, E
  <1>4. Stands(FetchFeeds(j, ds, o), j, E)
      BY <1>1, <1>2, <1>3, FeedsStand
  <1> QED
      BY <1>4 DEF ds, E

LEMMA LinkedInStands ==
    ASSUME NEW j, Fits(j), j.source = "linkedin", NEW o \in Outcomes, start \in {0, 1}
    PROVE  Stands(FetchLinkedIn(j, o), j, Owed(j, o))
  <1> DEFINE urls == UrlsOf(j)
             eventPages == {d \in Document : Format[d] = "event"}
             feeds == Only(urls, Document \ eventPages)
             pages == Only(urls, eventPages)
             fed == FetchFeeds(j, feeds, o)
             first == IF feeds = << >> THEN << >> ELSE fed.items
             texts == EventPages(pages, o)
             built == first \o texts
             errors == fed.errors \cup Failures(pages, o)
             r == Result(built, built, errors, fed.raised)
             E == Owed(j, o)
             F == {e \in OwedEvents(j, o) : \E d \in ToSet(feeds) : o[d] = "answers" /\ e \in Among(d, Hits(j))}
  <1>1. FetchLinkedIn(j, o) = OrMock(j, r)
      BY DEF FetchLinkedIn, EventPages
  <1>2. /\ urls \in Seq(Document) /\ Asked(j) = ToSet(urls) /\ ToSet(urls) \subseteq Document
        /\ \A d \in ToSet(urls) : Format[d] \in {"feed", "event"}
      BY AskedAre, UrlsFit DEF Reads
  <1>3. /\ feeds \in Seq(Document) /\ ToSet(feeds) = ToSet(urls) \cap (Document \ eventPages)
        /\ pages \in Seq(Document) /\ ToSet(pages) = ToSet(urls) \cap eventPages
    <2> HIDE DEF eventPages, urls
    <2>1. /\ feeds \in Seq(Document \cap (Document \ eventPages))
          /\ ToSet(feeds) = ToSet(urls) \cap (Document \ eventPages)
        BY <1>2, OnlyKeeps
    <2>2. pages \in Seq(Document \cap eventPages) /\ ToSet(pages) = ToSet(urls) \cap eventPages
        BY <1>2, OnlyKeeps
    <2> QED
        BY <2>1, <2>2, SeqMonotonic
  <1> HIDE DEF urls, feeds, pages
  <1>4. /\ \A d \in ToSet(feeds) : Format[d] = "feed" /\ d \in Asked(j)
        /\ \A d \in ToSet(pages) : Format[d] = "event" /\ d \in Asked(j)
        /\ \A d \in Asked(j) : d \in ToSet(feeds) \/ d \in ToSet(pages)
      BY <1>2, <1>3
  <1> HIDE DEF eventPages
  <1>5. ToSet(feeds) \subseteq Asked(j) /\ ToSet(pages) \subseteq Asked(j)
      BY <1>4
  <1>6. Stands(fed, j, F)
    <2>1. \A e \in F : \E d \in ToSet(feeds) : o[d] = "answers" /\ e \in Among(d, Hits(j))
        OBVIOUS
    <2> HIDE DEF F
    <2> QED
        BY <1>3, <1>4, <1>5, <2>1, FeedsStand
  <1>7. /\ texts \in Seq(Made(j))
        /\ \A d \in ToSet(pages) : o[d] = "answers" => Covers(texts, FirstOf(d))
        /\ \A d \in ToSet(pages) : o[d] # "fails" => Covers(texts, TextOf(d, o))
      BY <1>3, <1>4, <1>5, TextsMade
  <1>8. first \in Seq(Made(j))
      BY <1>6 DEF Stands
  <1> HIDE DEF first, texts
  <1>9. built \in Seq(Made(j)) /\ ToSet(built) = ToSet(first) \cup ToSet(texts)
      BY <1>7, <1>8, ToSetOfConcat
  <1>10. ASSUME fed.errors = {}, ~fed.raised, NEW e \in OwedEvents(j, o)
         PROVE  \E x \in ToSet(built) : x.about = e
    <2>1. PICK d \in Asked(j) :
              /\ o[d] = "answers" /\ e \in ToSet(Lists[d])
              /\ Format[d] = "feed" => e \in Hits(j)
              /\ Format[d] = "event" => e \in FirstOf(d)
        BY OwedAre
    <2>2. CASE d \in ToSet(feeds)
      <3>1. e \in F
          BY <1>4, <2>1, <2>2 DEF Among
      <3>2. first = fed.items
        <4>1. feeds # << >>
            BY <2>2, ShortSeqs
        <4> QED
            BY <4>1 DEF first
      <3>3. PICK x \in ToSet(first) : x.about = e
          BY <1>6, <1>10, <3>1, <3>2 DEF Stands, Covers
      <3> QED
          BY <1>9, <3>3
    <2>3. CASE d \in ToSet(pages)
      <3>1. PICK x \in ToSet(texts) : x.about = e
          BY <1>4, <1>7, <2>1, <2>3 DEF Covers
      <3> QED
          BY <1>9, <3>1
    <2> QED
        BY <1>4, <2>2, <2>3
  <1>11. ASSUME NEW e \in OwedTexts(j, o)
         PROVE  \E x \in ToSet(built) : x.about = e
    <2>1. e \in ToSet(pages) /\ o[e] # "fails" /\ e \in TextOf(e, o)
        BY <1>4, OwedTextsAre
    <2>2. PICK x \in ToSet(texts) : x.about = e
        BY <1>7, <2>1 DEF Covers
    <2> QED
        BY <1>9, <2>2
  <1>12. errors = {} /\ ~fed.raised => Covers(built, E)
      BY <1>10, <1>11, OwedIs DEF Covers
  <1> HIDE DEF built, errors, E, fed
  <1>13. Stands(r, j, E)
      BY <1>9, <1>12, ResultStands
  <1> HIDE DEF r
  <1> QED
      BY <1>1, <1>13, OrMockStands DEF E, Fits

\* What an API's pages list has ids.
LEMMA ApiFits ==
    ASSUME NEW j, Fits(j)
    PROVE  \A d \in ToSet(Answers[j.source]) : Format[d] = "api" /\ HasIds(d)
  BY FormatsFit DEF Fits, HasIds

LEMMA XStands ==
    ASSUME NEW j, Fits(j), j.source = "x", NEW o \in Outcomes, start \in {0, 1}
    PROVE  Stands(FetchX(j, o), j, Owed(j, o))
  <1> DEFINE E == Owed(j, o)
  <1>1. CASE ~AsksX(j)
    <2> DEFINE ds == UrlsOf(j)
    <2>1. ds \in Seq(Document) /\ Asked(j) = ToSet(ds)
        BY <1>1, AskedAre, UrlsFit
    <2>2. \A d \in ToSet(ds) : Format[d] = "feed"
        BY UrlsFit DEF Reads
    <2>3. \A e \in E : \E d \in ToSet(ds) : o[d] = "answers" /\ e \in Among(d, Hits(j))
      <3> SUFFICES ASSUME NEW e \in E
                   PROVE  \E d \in ToSet(ds) : o[d] = "answers" /\ e \in Among(d, Hits(j))
          OBVIOUS
      <3>1. e \in OwedEvents(j, o)
          BY <2>1, <2>2, OwedIs
      <3>2. PICK d \in Asked(j) :
                o[d] = "answers" /\ e \in ToSet(Lists[d]) /\ (Format[d] = "feed" => e \in Hits(j))
          BY <3>1, OwedAre
      <3> QED
          BY <2>1, <2>2, <3>2 DEF Among
    <2>4. FetchX(j, o) = FetchFeeds(j, ds, o)
        BY <1>1 DEF FetchX
    <2> HIDE DEF ds, E
    <2>5. Stands(FetchFeeds(j, ds, o), j, E)
        BY <2>1, <2>2, <2>3, FeedsStand
    <2> QED
        BY <2>4, <2>5 DEF E
  <1>2. CASE AsksX(j)
    <2> DEFINE api == Answers[j.source]
               built == AllApiPages(api)
               r == Result(built, built, {}, FALSE)
               down == Result(<< >>, << >>, {"api"}, ApiGarbage(api, o))
    <2>1. FetchX(j, o) = IF AllPagesRead(api, o) THEN r ELSE down
        BY <1>2 DEF FetchX, AllApiPages, ApiItems
    <2>2. api \in Seq(Document) /\ Asked(j) = ToSet(api)
        BY <1>2, AskedAre
    <2>3. \A d \in ToSet(api) : Format[d] = "api" /\ HasIds(d)
        BY ApiFits
    <2> HIDE DEF api
    <2>4. built \in Seq(Made(j)) /\ \A d \in ToSet(api) : Covers(built, ToSet(Lists[d]))
      <3>1. ToSet(api) \subseteq Asked(j)
          BY <2>2
      <3> QED
          BY <2>2, <2>3, <3>1, PagesMade
    <2>5. \A e \in E : \E d \in ToSet(api) : e \in ToSet(Lists[d])
        BY <2>2, <2>3, OwedAre, OwedIs
    <2>6. Covers(built, E)
        BY <2>4, <2>5 DEF Covers
    <2>7. << >> \in Seq(Made(j))
        OBVIOUS
    <2> HIDE DEF built, E
    <2>8. Stands(r, j, E)
        BY <2>4, <2>6, ResultStands
    <2>9. Stands(down, j, E)
        BY <2>7, ResultStands
    <2> HIDE DEF r, down
    <2> QED
        BY <2>1, <2>8, <2>9 DEF E
  <1> QED
      BY <1>1, <1>2

\* The pages before the first that was not read.
LEMMA ReadPagesAre ==
    ASSUME NEW ds \in Seq(Document), NEW o
    PROVE  /\ ReadPages(ds, o) \in Seq(Document) /\ ToSet(ReadPages(ds, o)) \subseteq ToSet(ds)
           /\ AllPagesRead(ds, o) => ReadPages(ds, o) = ds
  <1>1. CASE AllPagesRead(ds, o)
      BY <1>1 DEF ReadPages
  <1>2. CASE ~AllPagesRead(ds, o)
    <2> DEFINE T == Unread(ds, o)
               m == Min(T)
    <2>1. /\ Len(ds) \in Nat /\ DOMAIN ds = 1 .. Len(ds)
          /\ \A i \in 1 .. Len(ds) : ds[i] \in Document
        BY LenProperties
    <2>2. T \in SUBSET Nat /\ T # {} /\ T \subseteq 1 .. Len(ds)
        BY <1>2, <2>1 DEF Unread, AllPagesRead
    <2> HIDE DEF T
    <2>3. \E n \in T : \A k \in T : n <= k
        BY <2>2, LeastNumber
    <2>4. m \in T
        BY <2>3 DEF Min
    <2>5. ReadPages(ds, o) = SubSeq(ds, 1, m - 1)
        BY <1>2 DEF ReadPages, T
    <2> HIDE DEF m
    <2>6. m - 1 \in 0 .. Len(ds)
        BY <2>1, <2>2, <2>4
    <2>7. SubSeq(ds, 1, m - 1) = [i \in 1 .. m - 1 |-> ds[i]]
        BY <2>6 DEF SubSeq
    <2>8. \A i \in 1 .. m - 1 : i \in 1 .. Len(ds)
        BY <2>1, <2>6
    <2>9. SubSeq(ds, 1, m - 1) \in Seq(Document)
        BY <2>1, <2>6, <2>7, <2>8
    <2>10. ToSet(SubSeq(ds, 1, m - 1)) \subseteq ToSet(ds)
        BY <2>1, <2>7, <2>8 DEF ToSet
    <2> QED
        BY <1>2, <2>5, <2>9, <2>10
  <1> QED
      BY <1>1, <1>2

LEMMA TicketsStand ==
    ASSUME NEW j, Fits(j), j.source \in {"ticketmaster", "seatgeek"}, NEW o \in Outcomes,
           start \in {0, 1}
    PROVE  Stands(FetchTickets(j, o), j, Owed(j, o))
  <1> DEFINE api == Answers[j.source]
             read == ReadPages(api, o)
             built == ApiPages(read, Named)
             errors == IF AllPagesRead(api, o) THEN {} ELSE {"api"}
             r == Result(built, built, errors, ApiGarbage(api, o))
             mock == Result(<<Mock(j)>>, <<Mock(j)>>, {}, FALSE)
             none == Result(<< >>, << >>, {"keyless"}, FALSE)
             E == Owed(j, o)
  <1>1. FetchTickets(j, o) = IF api = << >> THEN IF Mocks THEN mock ELSE none ELSE r
      BY DEF FetchTickets, ApiPages, ApiItems
  <1>2. api \in Seq(Document) /\ Asked(j) = ToSet(api)
      BY AskedAre
  <1>3. \A d \in ToSet(api) : Format[d] = "api" /\ HasIds(d)
      BY ApiFits
  <1> HIDE DEF api
  <1>4. /\ read \in Seq(Document) /\ ToSet(read) \subseteq ToSet(api)
        /\ AllPagesRead(api, o) => read = api
      BY <1>2, ReadPagesAre
  <1> HIDE DEF read
  <1>5. built \in Seq(Made(j)) /\ \A d \in ToSet(read) : Covers(built, Among(d, Named))
    <2>1. ToSet(read) \subseteq Asked(j) /\ \A d \in ToSet(read) : HasIds(d)
        BY <1>2, <1>3, <1>4
    <2> QED
        BY <1>4, <2>1, PagesMade
  <1>6. \A e \in E : \E d \in ToSet(api) : e \in Among(d, Named)
    <2> SUFFICES ASSUME NEW e \in E
                 PROVE  \E d \in ToSet(api) : e \in Among(d, Named)
        OBVIOUS
    <2>1. e \in OwedEvents(j, o)
        BY <1>2, <1>3, OwedIs
    <2>2. PICK d \in Asked(j) : e \in ToSet(Lists[d]) /\ (Format[d] = "ics" \/ e \in Named)
        BY <2>1, OwedAre
    <2> QED
        BY <1>2, <1>3, <2>2 DEF Among
  <1>7. errors = {} => Covers(built, E)
      BY <1>4, <1>5, <1>6 DEF Covers
  <1>8. api = << >> => E = {}
    <2>1. api = << >> => ToSet(api) = {}
        BY ShortSeqs
    <2> QED
        BY <1>6, <2>1
  <1>9. <<Mock(j)>> \in Seq(Made(j)) /\ << >> \in Seq(Made(j))
    <2>1. Mock(j) \in Made(j)
        BY DEF Mock, Made, MockItems, Fits
    <2> QED
        BY <2>1, ShortSeqs
  <1>10. api = << >> => Covers(<<Mock(j)>>, E)
      BY <1>8 DEF Covers
  <1> HIDE DEF built, errors, E
  <1>11. Stands(r, j, E)
      BY <1>5, <1>7, ResultStands
  <1>12. api = << >> => Stands(mock, j, E)
      BY <1>9, <1>10, ResultStands
  <1>13. Stands(none, j, E)
      BY <1>9, ResultStands
  <1> HIDE DEF r, mock, none
  <1> QED
      BY <1>1, <1>11, <1>12, <1>13 DEF E

\* Whatever a job asks and however its requests end.
LEMMA FetchStands ==
    ASSUME NEW j, NEW o \in Outcomes, Fits(j), start \in {0, 1}
    PROVE  Stands(Fetch(j, o), j, Owed(j, o))
  <1>1. j.source \in GeoAble \cup {"eventbrite", "telegram", "linkedin", "x"}
      BY AskedAre
  <1>2. /\ j.source = "luma" => Fetch(j, o) = FetchLuma(j, o)
        /\ j.source = "eventbrite" => Fetch(j, o) = FetchEventbrite(j, o)
        /\ j.source = "telegram" => Fetch(j, o) = FetchFeeds(j, UrlsOf(j), o)
        /\ j.source = "linkedin" => Fetch(j, o) = FetchLinkedIn(j, o)
        /\ j.source = "x" => Fetch(j, o) = FetchX(j, o)
        /\ j.source \in {"ticketmaster", "seatgeek"} => Fetch(j, o) = FetchTickets(j, o)
      BY DEF Fetch
  <1> QED
      BY <1>1, <1>2, LumaStands, EventbriteStands, TelegramStands, LinkedInStands, XStands, TicketsStand
         DEF GeoAble

\* An adapter that reports no error and does not raise had its requests answered,
\* and could read what it got, but for the formats that may come unreadable.
Reports(r, j, o) ==
    r.errors = {} /\ ~r.raised => \A d \in Asked(j) : o[d] = "answers" \/ Unreported(d, o)

LEMMA OrMockReports ==
    ASSUME NEW j, NEW r, NEW o, Reports(r, j, o),
           r = [items |-> r.items, errors |-> r.errors, raised |-> r.raised]
    PROVE  Reports(OrMock(j, r), j, o)
  <1>1. OrMock(j, r) = r \/ OrMock(j, r) = [r EXCEPT !.items = <<Mock(j)>>]
      BY DEF OrMock
  <1>2. CASE OrMock(j, r) = r
      BY <1>2
  <1>3. CASE OrMock(j, r) = [r EXCEPT !.items = <<Mock(j)>>]
    <2>1. OrMock(j, r).errors = r.errors /\ OrMock(j, r).raised = r.raised
        BY <1>3
    <2> QED
        BY <2>1 DEF Reports
  <1> QED
      BY <1>1, <1>2, <1>3

LEMMA ResultReports ==
    ASSUME NEW j, NEW o, NEW built, NEW items, NEW errors, NEW garbage,
           errors = {} /\ ~garbage => \A d \in Asked(j) : o[d] = "answers" \/ Unreported(d, o)
    PROVE  /\ Reports(Result(built, items, errors, garbage), j, o)
           /\ Reports(OrMock(j, Result(built, items, errors, garbage)), j, o)
  <1> DEFINE r == Result(built, items, errors, garbage)
  <1>1. r = [items |-> r.items, errors |-> r.errors, raised |-> r.raised]
      BY DEF Result
  <1>2. Reports(r, j, o)
      BY DEF Reports, Result
  <1> HIDE DEF r
  <1>3. Reports(OrMock(j, r), j, o)
      BY <1>1, <1>2, OrMockReports
  <1> QED
      BY <1>2, <1>3 DEF r

\* No error is that of a request.
LEMMA NoFailures ==
    ASSUME NEW o \in Outcomes, NEW ds \in Seq(Document), Failures(ds, o) = {}
    PROVE  \A d \in ToSet(ds) : o[d] \in {"answers", "garbage"}
  <1>1. ToSet(ds) \subseteq Document
      BY ToSetOfSeq
  <1> QED
      BY <1>1 DEF Failures, Outcomes

LEMMA AllRead ==
    ASSUME NEW o, NEW ds \in Seq(Document), AllPagesRead(ds, o)
    PROVE  \A d \in ToSet(ds) : o[d] = "answers"
  BY DEF AllPagesRead, Unread, ToSet

\* FeedAdapter reports a feed that cannot be parsed.
LEMMA FeedsReport ==
    ASSUME NEW j, NEW ds \in Seq(Document), NEW o \in Outcomes, FetchFeeds(j, ds, o).errors = {}
    PROVE  \A d \in ToSet(ds) : o[d] = "answers"
  <1> DEFINE errors == {d \in ToSet(ds) : o[d] = "garbage"} \cup Failures(ds, o)
             built == FlatMap(LAMBDA d : Items(LAMBDA e : Entry(d, e), Only(Readable(d, o), Hits(j))),
                              Answered(ds, o))
             r == Result(built, built, errors, FALSE)
  <1>1. FetchFeeds(j, ds, o) = OrMock(j, r)
      BY DEF FetchFeeds
  <1>2. r.errors = errors /\ r = [items |-> r.items, errors |-> r.errors, raised |-> r.raised]
      BY DEF Result
  <1> HIDE DEF r
  <1>3. OrMock(j, r) = r \/ OrMock(j, r) = [r EXCEPT !.items = <<Mock(j)>>]
      BY DEF OrMock
  <1>4. OrMock(j, r).errors = r.errors
      BY <1>2, <1>3
  <1>5. errors = {}
      BY <1>1, <1>2, <1>4
  <1>6. Failures(ds, o) = {} /\ {d \in ToSet(ds) : o[d] = "garbage"} = {}
      BY <1>5
  <1> QED
      BY <1>6, NoFailures

LEMMA FetchReports ==
    ASSUME NEW j, NEW o \in Outcomes, Fits(j)
    PROVE  Reports(Fetch(j, o), j, o)
  <1> DEFINE api == Answers[j.source]
             addresses == LumaAddresses(j)
             urls == UrlsOf(j)
  <1>1. /\ api \in Seq(Document) /\ addresses \in Seq(Document) /\ urls \in Seq(Document)
        /\ j.urls \in Seq(Document) /\ ToSet(urls) \subseteq Document
      BY AskedAre, UrlsFit, ToSetOfSeq DEF Fits
  <1>2. CASE j.source = "luma"
    <2>1. \E built, items : Fetch(j, o) \in
              {Result(built, items, Failures(addresses, o), FALSE),
               OrMock(j, Result(built, items, Failures(addresses, o), FALSE))}
        BY <1>2 DEF Fetch, FetchLuma
    <2>2. Asked(j) = ToSet(addresses)
        BY <1>2, AskedAre
    <2>3. \A d \in ToSet(addresses) : Format[d] \in {"ics", "page"}
      <3>1. GeoMode(j) => addresses = NearbyFeeds
          BY DEF LumaAddresses
      <3>2. ~GeoMode(j) => addresses = urls /\ Reads(j.source) = {"ics", "page"}
          BY <1>2 DEF LumaAddresses, Reads
      <3> QED
          BY <3>1, <3>2, FormatsFit, UrlsFit
    <2>4. Failures(addresses, o) = {} => \A d \in Asked(j) : o[d] = "answers" \/ Unreported(d, o)
        BY <1>1, <2>2, <2>3, NoFailures DEF Unreported
    <2>5. \A built, items : /\ Reports(Result(built, items, Failures(addresses, o), FALSE), j, o)
                             /\ Reports(OrMock(j, Result(built, items, Failures(addresses, o), FALSE)), j, o)
        BY <2>4, ResultReports
    <2> QED
        BY <2>1, <2>5
  <1>3. CASE j.source = "eventbrite"
    <2> DEFINE errors == (IF AllPagesRead(api, o) THEN {} ELSE {"api"}) \cup Failures(j.urls, o)
    <2>1. \E built : Fetch(j, o) = OrMock(j, Result(built, built, errors, ApiGarbage(api, o)))
        BY <1>3 DEF Fetch, FetchEventbrite
    <2>2. Asked(j) = ToSet(api) \cup ToSet(j.urls) /\ \A d \in ToSet(j.urls) : Format[d] = "page"
        BY <1>3, AskedAre DEF Fits, Reads
    <2>3. errors = {} => AllPagesRead(api, o) /\ Failures(j.urls, o) = {}
        OBVIOUS
    <2>4. errors = {} => \A d \in Asked(j) : o[d] = "answers" \/ Unreported(d, o)
        BY <1>1, <2>2, <2>3, AllRead, NoFailures DEF Unreported
    <2> HIDE DEF errors
    <2>5. \A built : Reports(OrMock(j, Result(built, built, errors, ApiGarbage(api, o))), j, o)
        BY <2>4, ResultReports
    <2> QED
        BY <2>1, <2>5
  <1>4. CASE j.source = "telegram" \/ (j.source = "x" /\ ~AsksX(j))
    <2>1. Fetch(j, o) = FetchFeeds(j, urls, o) /\ Asked(j) = ToSet(urls)
        BY <1>4, AskedAre DEF Fetch, FetchX
    <2> QED
        BY <1>1, <2>1, FeedsReport DEF Reports
  <1>5. CASE j.source = "linkedin"
    <2> DEFINE eventPages == {d \in Document : Format[d] = "event"}
               feeds == Only(urls, Document \ eventPages)
               pages == Only(urls, eventPages)
               fed == FetchFeeds(j, feeds, o)
               errors == fed.errors \cup Failures(pages, o)
    <2>1. \E built : Fetch(j, o) = OrMock(j, Result(built, built, errors, fed.raised))
        BY <1>5 DEF Fetch, FetchLinkedIn
    <2>2. Asked(j) = ToSet(urls)
        BY <1>5, AskedAre
    <2>3. /\ feeds \in Seq(Document) /\ ToSet(feeds) = ToSet(urls) \cap (Document \ eventPages)
          /\ pages \in Seq(Document) /\ ToSet(pages) = ToSet(urls) \cap eventPages
      <3> HIDE DEF eventPages, urls
      <3>1. /\ feeds \in Seq(Document \cap (Document \ eventPages))
            /\ ToSet(feeds) = ToSet(urls) \cap (Document \ eventPages)
          BY <1>1, OnlyKeeps
      <3>2. pages \in Seq(Document \cap eventPages) /\ ToSet(pages) = ToSet(urls) \cap eventPages
          BY <1>1, OnlyKeeps
      <3> QED
          BY <3>1, <3>2, SeqMonotonic
    <2>4. \A d \in ToSet(pages) : Format[d] = "event"
        BY <2>3
    <2>5. \A d \in Asked(j) : d \in ToSet(feeds) \/ d \in ToSet(pages)
        BY <1>1, <2>2, <2>3
    <2> HIDE DEF feeds, pages, eventPages
    <2>6. errors = {} => fed.errors = {} /\ Failures(pages, o) = {}
        OBVIOUS
    <2>7. fed.errors = {} => \A d \in ToSet(feeds) : o[d] = "answers"
        BY <2>3, FeedsReport
    <2>8. errors = {} => \A d \in Asked(j) : o[d] = "answers" \/ Unreported(d, o)
        BY <2>3, <2>4, <2>5, <2>6, <2>7, NoFailures DEF Unreported
    <2> HIDE DEF errors, fed
    <2>9. \A built : Reports(OrMock(j, Result(built, built, errors, fed.raised)), j, o)
        BY <2>8, ResultReports
    <2> QED
        BY <2>1, <2>9
  <1>6. CASE j.source = "x" /\ AsksX(j)
    <2>1. \E built : Fetch(j, o) = IF AllPagesRead(api, o) THEN Result(built, built, {}, FALSE)
                                   ELSE Result(<< >>, << >>, {"api"}, ApiGarbage(api, o))
        BY <1>6 DEF Fetch, FetchX
    <2>2. Asked(j) = ToSet(api)
        BY <1>6, AskedAre
    <2>3. AllPagesRead(api, o) => \A built : Reports(Result(built, built, {}, FALSE), j, o)
        BY <1>1, <2>2, AllRead, ResultReports
    <2>4. Reports(Result(<< >>, << >>, {"api"}, ApiGarbage(api, o)), j, o)
        BY ResultReports
    <2> QED
        BY <2>1, <2>3, <2>4
  <1>7. CASE j.source \in {"ticketmaster", "seatgeek"}
    <2> DEFINE errors == IF AllPagesRead(api, o) THEN {} ELSE {"api"}
    <2>1. \E built : Fetch(j, o) =
              IF api = << >> THEN IF Mocks THEN Result(<<Mock(j)>>, <<Mock(j)>>, {}, FALSE)
                                  ELSE Result(<< >>, << >>, {"keyless"}, FALSE)
              ELSE Result(built, built, errors, ApiGarbage(api, o))
        BY <1>7 DEF Fetch, FetchTickets
    <2>2. Asked(j) = ToSet(api)
        BY <1>7, AskedAre
    <2>3. errors = {} => \A d \in Asked(j) : o[d] = "answers" \/ Unreported(d, o)
        BY <1>1, <2>2, AllRead
    <2>4. api = << >> => Asked(j) = {}
        BY <2>2, NoneToSet
    <2>5. \A built : Reports(Result(built, built, errors, ApiGarbage(api, o)), j, o)
        BY <2>3, ResultReports
    <2>6. /\ api = << >> => Reports(Result(<<Mock(j)>>, <<Mock(j)>>, {}, FALSE), j, o)
          /\ Reports(Result(<< >>, << >>, {"keyless"}, FALSE), j, o)
        BY <2>4, ResultReports
    <2> QED
        BY <2>1, <2>5, <2>6
  <1> QED
      BY <1>2, <1>3, <1>4, <1>5, <1>6, <1>7, AskedAre DEF GeoAble

-----------------------------------------------------------------------------
(* Ids: no two items of a run share one.                                     *)

\* What an id says of the event that has it.
LEMMA IdsSay ==
    ASSUME NEW d \in Document, NEW e, NEW i \in OwnIds(d, e)
    PROVE  /\ i[1] \in {"id", "path", "slug", "hash"}
           /\ i[1] = "id" => i = Native(e) /\ i[2] = Published[e].uid /\ Published[e].uid # "none"
           /\ i[1] = "path" => /\ i = Path(Published[e].page) /\ i[2] = Published[e].page
                               /\ Published[e].page # "none"
                               /\ Published[e].page = d => Format[d] = "feed"
           /\ i[1] = "slug" => /\ i = Slug(e) /\ i[2] = Published[e].title
                               /\ Published[e].uid = "none" /\ Published[e].page = "none"
           /\ i[1] = "hash" => /\ i[2] = d /\ Nameless(d, e)
                               /\ \/ Len(i) = 4 /\ i[3] = Published[e].title
                                  \/ /\ Len(i) = 2 /\ Published[e].uid = "none"
                                     /\ Published[e].page = "none" /\ Published[e].title = "none"
  <1>1. CASE i = Native(e) /\ Published[e].uid # "none"
      BY <1>1 DEF Native
  <1>2. CASE /\ i = Path(Published[e].page) /\ Published[e].page # "none"
             /\ Published[e].page = d => Format[d] = "feed"
      BY <1>2 DEF Path
  <1>3. CASE i = Slug(e) /\ Published[e].uid = "none" /\ Published[e].page = "none"
      BY <1>3 DEF Slug
  <1>4. CASE /\ i = <<"hash", d>> /\ Published[e].uid = "none" /\ Published[e].page = "none"
             /\ Published[e].title = "none"
      BY <1>4 DEF Nameless
  <1>5. CASE Nameless(d, e) /\ \E t \in {0, 1} : i = <<"hash", d, Published[e].title, t>>
      BY <1>5
  <1> QED
      BY <1>1, <1>2, <1>3, <1>4, <1>5 DEF OwnIds

LEMMA EventsTell ==
    ASSUME NEW j, NEW d \in Document, NEW c \in Document, NEW e \in ToSet(Lists[d]), NEW f \in ToSet(Lists[c]),
           NEW i, i \in OwnIds(d, e), i \in OwnIds(c, f),
           TellsApart(j), d \in Asked(j), c \in Asked(j)
    PROVE  e = f
  <1> SUFFICES ASSUME e # f PROVE FALSE
      OBVIOUS
  <1>1. /\ Published[e].uid # "none" => Published[f].uid # Published[e].uid
        /\ Published[e].page # "none" => Published[f].page # Published[e].page
        /\ Published[e].uid = "none" \/ Published[e].page = "none" =>
               Published[f].title # Published[e].title
      BY DEF TellsApart
  <1>2. Published[f].uid = "none" \/ Published[f].page = "none" =>
               Published[e].title # Published[f].title
      BY DEF TellsApart
  <1>3. CASE i[1] = "id"
      BY <1>1, <1>3, IdsSay
  <1>4. CASE i[1] = "path"
      BY <1>1, <1>4, IdsSay
  <1>5. CASE i[1] = "slug"
      BY <1>1, <1>5, IdsSay
  <1>6. CASE i[1] = "hash"
    <2>1. c = d /\ Nameless(d, e) /\ Nameless(d, f)
        BY <1>6, IdsSay
    <2>2. Published[e].title = Published[f].title
        BY <1>6, IdsSay
    <2>3. ~ (Published[e].uid = "none" \/ Published[e].page = "none")
        BY <1>1, <2>2
    <2>4. ~ (Published[f].uid = "none" \/ Published[f].page = "none")
        BY <1>2, <2>2
    <2>5. Published[e].page = d /\ Published[f].page = d
        BY <2>1, <2>3, <2>4 DEF Nameless
    <2> QED
        BY <1>1, <2>3, <2>5
  <1>7. i[1] \in {"id", "path", "slug", "hash"}
      BY IdsSay
  <1> QED
      BY <1>3, <1>4, <1>5, <1>6, <1>7

\* An item is of an event, of a page's own text, or a mock.
LEMMA MadeAre ==
    ASSUME NEW j, NEW x \in Made(j)
    PROVE  /\ x = [id |-> x.id, about |-> x.about]
           /\ \/ \E d \in Asked(j) : x.about \in ToSet(Lists[d]) /\ x.id \in OwnIds(d, x.about)
              \/ \E d \in Asked(j) : x = PageText(d) /\ Format[d] \in {"page", "event"}
              \/ x.about = "mock" /\ x.id[1] = "mock"
  <1>1. CASE x \in MockItems
      BY <1>1 DEF MockItems
  <1>2. ASSUME NEW d \in Asked(j), x \in OwnItems(d)
        PROVE  /\ x = [id |-> x.id, about |-> x.about]
               /\ x.about \in ToSet(Lists[d]) /\ x.id \in OwnIds(d, x.about)
      BY <1>2 DEF OwnItems
  <1>3. ASSUME NEW d \in Asked(j), x = PageText(d)
        PROVE  x = [id |-> x.id, about |-> x.about]
      BY <1>3 DEF PageText
  <1> QED
      BY <1>1, <1>2, <1>3 DEF Made, Of

LEMMA IdsDiffer ==
    ASSUME NEW j, NEW x \in Made(j), NEW y \in Made(j), TellsApart(j), Asked(j) \subseteq Document,
           x.id = y.id
    PROVE  x = y
  <1> DEFINE Event(z) == \E d \in Asked(j) : z.about \in ToSet(Lists[d]) /\ z.id \in OwnIds(d, z.about)
             Text(z) == \E d \in Asked(j) : z = PageText(d) /\ Format[d] \in {"page", "event"}
             IsMock(z) == z.about = "mock" /\ z.id[1] = "mock"
  <1>1. ASSUME NEW z \in Made(j), Event(z)
        PROVE  z.id[1] \in {"id", "path", "slug", "hash"}
      BY <1>1, IdsSay
  <1>2. ASSUME NEW z \in Made(j), Text(z)
        PROVE  z.id[1] = "path"
      BY <1>2 DEF PageText, Path
  <1>3. ASSUME NEW z \in Made(j), NEW w \in Made(j), Event(z), Text(w), z.id = w.id
        PROVE  FALSE
    <2>1. PICK d \in Asked(j) : z.about \in ToSet(Lists[d]) /\ z.id \in OwnIds(d, z.about)
        BY <1>3
    <2>2. PICK c \in Asked(j) : w = PageText(c) /\ Format[c] \in {"page", "event"}
        BY <1>3
    <2>3. z.id[1] = "path" /\ z.id[2] = c
        BY <1>3, <2>2 DEF PageText, Path
    <2>4. Published[z.about].page = c /\ (c = d => Format[d] = "feed")
        BY <2>1, <2>3, IdsSay
    <2>5. Published[z.about].page \in Asked(j) => Published[z.about].page = d
        BY <2>1 DEF TellsApart
    <2> QED
        BY <2>2, <2>4, <2>5
  <1>4. CASE Event(x) /\ Event(y)
    <2>1. PICK d \in Asked(j) : x.about \in ToSet(Lists[d]) /\ x.id \in OwnIds(d, x.about)
        BY <1>4
    <2>2. PICK c \in Asked(j) : y.about \in ToSet(Lists[c]) /\ y.id \in OwnIds(c, y.about)
        BY <1>4
    <2>3. x.about = y.about
        BY <2>1, <2>2, EventsTell
    <2> QED
        BY <2>3, MadeAre
  <1>5. CASE Text(x) /\ Text(y)
      BY <1>5 DEF PageText, Path
  <1>6. CASE IsMock(x) /\ IsMock(y)
      BY <1>6, MadeAre
  <1>7. /\ Event(x) \/ Text(x) \/ IsMock(x)
        /\ Event(y) \/ Text(y) \/ IsMock(y)
      BY MadeAre
  <1> HIDE DEF Event, Text
  <1>8. ~ (IsMock(x) /\ (Event(y) \/ Text(y))) /\ ~ (IsMock(y) /\ (Event(x) \/ Text(x)))
      BY <1>1, <1>2
  <1>9. ~ (Event(x) /\ Text(y)) /\ ~ (Event(y) /\ Text(x))
      BY <1>3
  <1> QED
      BY <1>4, <1>5, <1>6, <1>7, <1>8, <1>9

-----------------------------------------------------------------------------
(* Runs: the rows of source_runs, whatever fetch() returns.                  *)
\* A run is open while its job is at work: it has counted nothing yet, and
\* nothing is stored before the items are there.
OpenRunsCountNothing ==
    /\ phase \in {"fetch", "store"} => run.status = "started" /\ run.created = 0
    /\ phase = "fetch" => stored = 0
    /\ phase = "store" => ~fetched.raised

StoredIsCounted == stored \in Nat /\ run.created \in Nat

SInv == OpenRunsCountNothing /\ StoredIsCounted /\ FinishedRunsCount

LEMMA InitSInv == SourcesInit => SInv
  BY DEF SourcesInit, SInv, OpenRunsCountNothing, StoredIsCounted, FinishedRunsCount, NoRun, NoJob

LEMMA RunFields ==
    ASSUME NEW status, NEW created
    PROVE  /\ [status |-> status, created |-> created].status = status
           /\ [status |-> status, created |-> created].created = created
  OBVIOUS

\* create_source_run: a new row claims nothing.
LEMMA BeginKeepsSInv ==
    ASSUME NEW j, BeginRun(j)
    PROVE  SInv'
  <1>1. run'.status = "started" /\ run'.created = 0 /\ stored' = 0 /\ phase' = "fetch"
      BY RunFields DEF BeginRun
  <1> QED
      BY <1>1 DEF SInv, OpenRunsCountNothing, StoredIsCounted, FinishedRunsCount

\* The step that closes the row.
LEMMA EndFacts ==
    ASSUME NEW status, NEW created, EndRun(status, created)
    PROVE  run'.status = status /\ run'.created = created /\ phase' \in {"next", "idle"}
  BY RunFields DEF EndRun

\* A fetch that raised closes the row before anything is stored.
LEMMA FetchKeepsSInv ==
    ASSUME SInv, NEW outcome, FetchDocuments(outcome)
    PROVE  SInv'
  <1> DEFINE result == Fetch(job, outcome)
  <1>1. /\ phase = "fetch" /\ fetched' = result /\ UNCHANGED <<job, stored>>
        /\ IF result.raised THEN EndRun("failed", 0) ELSE phase' = "store" /\ UNCHANGED run
      BY DEF FetchDocuments
  <1> HIDE DEF result
  <1>2. stored = 0 /\ run.status = "started" /\ run.created = 0
      BY <1>1 DEF SInv, OpenRunsCountNothing
  <1>3. CASE result.raised
      <2>1. run'.status = "failed" /\ run'.created = 0 /\ phase' \in {"next", "idle"}
          BY <1>1, <1>3, EndFacts
      <2> QED
          BY <1>1, <1>2, <2>1 DEF SInv, OpenRunsCountNothing, StoredIsCounted, FinishedRunsCount
  <1>4. CASE ~result.raised
      BY <1>1, <1>2, <1>4 DEF SInv, OpenRunsCountNothing, StoredIsCounted, FinishedRunsCount
  <1> QED
      BY <1>3, <1>4

\* One more item is stored while the row is still open.
LEMMA StoreKeepsSInv ==
    ASSUME SInv, StoreSignal
    PROVE  SInv'
  BY DEF StoreSignal, SInv, OpenRunsCountNothing, StoredIsCounted, FinishedRunsCount

LEMMA StoreFailsKeepsSInv ==
    ASSUME SInv, StoreFails
    PROVE  SInv'
  <1> DEFINE created == IF job.by = "ingest" THEN stored ELSE 0
  <1>1. EndRun("failed", created) /\ UNCHANGED <<job, stored, fetched>>
      BY DEF StoreFails
  <1>2. /\ created \in Nat /\ created <= stored
        /\ job.by = "ingest" => created = stored
      BY DEF SInv, StoredIsCounted
  <1> HIDE DEF created
  <1>3. run'.status = "failed" /\ run'.created = created /\ phase' \in {"next", "idle"}
      BY <1>1, EndFacts
  <1> QED
      BY <1>1, <1>2, <1>3 DEF SInv, OpenRunsCountNothing, StoredIsCounted, FinishedRunsCount

\* Everything is stored: the row is closed with what was stored.
LEMMA FinishKeepsSInv ==
    ASSUME SInv, FinishRun
    PROVE  SInv'
  <1> DEFINE status == IF fetched.errors = {} THEN "completed" ELSE IF stored > 0 THEN "partial" ELSE "failed"
  <1>1. /\ phase = "store" /\ stored = Len(fetched.items)
        /\ EndRun(status, stored) /\ UNCHANGED <<job, stored, fetched>>
      BY DEF FinishRun
  <1>2. /\ status \in {"completed", "partial", "failed"}
        /\ status = "completed" => fetched.errors = {}
        /\ status = "partial" => fetched.errors # {} /\ stored > 0
      OBVIOUS
  <1> HIDE DEF status
  <1>3. run'.status = status /\ run'.created = stored /\ phase' \in {"next", "idle"}
      BY <1>1, EndFacts
  <1>4. ~fetched.raised
      BY <1>1 DEF SInv, OpenRunsCountNothing
  <1> QED
      BY <1>1, <1>2, <1>3, <1>4 DEF SInv, OpenRunsCountNothing, StoredIsCounted, FinishedRunsCount

LEMMA NextSInv == SInv /\ [SourcesNext]_sourcesVars => SInv'
  <1> SUFFICES ASSUME SInv, [SourcesNext]_sourcesVars PROVE SInv'
      OBVIOUS
  <1>1. ASSUME NEW j \in Job, Ingest(j) \/ IngestJob(j) PROVE SInv'
      BY <1>1, BeginKeepsSInv DEF Ingest, IngestJob, StartRun
  <1>2. ASSUME NEW query \in BOOLEAN, Scan(query) PROVE SInv'
      <2>1. run'.status = "none" /\ run'.created = 0 /\ stored' = 0 /\ phase' = "next"
          BY <1>2, RunFields DEF Scan, NoRun
      <2> QED
          BY <2>1 DEF SInv, OpenRunsCountNothing, StoredIsCounted, FinishedRunsCount
  <1>3. CASE NextSource
      BY <1>3, BeginKeepsSInv DEF NextSource
  <1>4. ASSUME NEW late \in BOOLEAN, EndScan(late) PROVE SInv'
      BY <1>4 DEF EndScan, SInv, OpenRunsCountNothing, StoredIsCounted, FinishedRunsCount
  <1>5. ASSUME NEW outcome, FetchDocuments(outcome) PROVE SInv'
      BY <1>5, FetchKeepsSInv
  <1>6. CASE StoreSignal
      BY <1>6, StoreKeepsSInv
  <1>7. CASE StoreFails
      BY <1>7, StoreFailsKeepsSInv
  <1>8. CASE FinishRun
      BY <1>8, FinishKeepsSInv
  <1>9. CASE Die \/ Reschedule
      BY <1>9 DEF Die, Reschedule, SInv, OpenRunsCountNothing, StoredIsCounted, FinishedRunsCount
  <1>10. CASE UNCHANGED sourcesVars
      BY <1>10 DEF sourcesVars, SInv, OpenRunsCountNothing, StoredIsCounted, FinishedRunsCount
  <1> QED
      BY <1>1, <1>2, <1>3, <1>4, <1>5, <1>6, <1>7, <1>8, <1>9, <1>10 DEF SourcesNext

LEMMA SpecSInv == SourcesSpec => []SInv
  BY InitSInv, NextSInv, PTL DEF SourcesSpec

\* The row of a run never claims more than was committed, and its status tells
\* whether something was lost, for all sources, documents and answers
\* (signals.py:101-116, discovery.py:204-212).
THEOREM RunsCount == SourcesSpec => []FinishedRunsCount
  <1>1. SInv => FinishedRunsCount
      BY DEF SInv
  <1> QED
      BY <1>1, SpecSInv, PTL

-----------------------------------------------------------------------------
(* The rows of the items.                                                    *)

\* The job of a run is one that fits; a scan asks around its point.
JobFits ==
    /\ phase \in {"fetch", "store"} => Fits(job)
    /\ phase = "next" => job.by = "scan"
    /\ job.by = "scan" => \E s \in Source, query \in BOOLEAN : job = ScanOf(s, query)

Answerable == got \in Outcomes /\ queue \in Seq(ToSet(GeoSources)) /\ Len(fetched.items) \in Nat

\* A row about an event has an id that a document gives the event, and no two
\* rows of a source share an id.
RowsAreOwn ==
    /\ \A row \in rows :
          row.about \in Listing =>
              \E d \in Document : row.about \in ToSet(Lists[d]) /\ row.id \in OwnIds(d, row.about)
    /\ \A r, q \in rows : r.source = q.source /\ r.id = q.id => r = q

\* What fetch() returned stands for what it owes, and what was stored of it has
\* the row it was given.
ItemsStand ==
    phase = "store" =>
        /\ Stands(fetched, job, Owed(job, got)) /\ Reports(fetched, job, got)
        /\ \A i \in 1 .. stored :
              [source |-> job.source, id |-> fetched.items[i].id, about |-> fetched.items[i].about] \in rows

RInv ==
    /\ SInv /\ SourcesTypeOK /\ JobFits /\ Answerable
    /\ RowsAreOwn /\ ItemsStand /\ CompletedRunsKeepEveryEvent

LEMMA InitRInv == SourcesInit => RInv
  <1> SUFFICES ASSUME SourcesInit PROVE RInv
      OBVIOUS
  <1>1. SInv
      BY InitSInv
  <1>2. /\ job.by = "nobody" /\ job.source = "luma" /\ phase = "idle" /\ rows = {}
        /\ run.status = "none" /\ stored = 0 /\ queue = << >> /\ fetched.items = << >>
        /\ start = 0 /\ requests = 0
      BY DEF SourcesInit, NoJob, NoRun, Nothing
  <1>3. "luma" \in Source /\ MaxRequests \in Nat
      BY SourcesAssumption
  <1>4. got \in Outcomes
      BY DEF SourcesInit, Outcomes
  <1>5. SourcesTypeOK
      BY <1>2, <1>3 DEF SourcesTypeOK
  <1>6. Answerable
      BY <1>2, <1>4 DEF Answerable
  <1> QED
      BY <1>1, <1>2, <1>5, <1>6 DEF RInv, JobFits, RowsAreOwn, ItemsStand, CompletedRunsKeepEveryEvent

LEMMA GeoSourcesAre ==
    /\ ToSet(GeoSources) \subseteq Source \cap GeoAble
    /\ GeoSources \in Seq(ToSet(GeoSources))
    /\ \A q \in Seq(ToSet(GeoSources)) : q \in Seq(Source)
  <1>1. GeoSources \in Seq(Source \cap GeoAble)
      BY SourcesAssumption
  <1>2. ToSet(GeoSources) \subseteq Source \cap GeoAble /\ GeoSources \in Seq(ToSet(GeoSources))
      BY <1>1, ToSetOfSeq
  <1>3. ToSet(GeoSources) \subseteq Source
      BY <1>2
  <1> QED
      BY <1>2, <1>3, SeqMonotonic

\* A job is told apart by what it asks for.
LEMMA SameAsked ==
    ASSUME NEW j, NEW k, j.source = k.source, j.query = k.query, j.urls = k.urls, j.geo = k.geo
    PROVE  TellsApart(j) => TellsApart(k)
  <1>1. Asked(j) = Asked(k)
      BY DEF Asked, LumaAddresses, UrlsOf, GeoMode, AsksX
  <1> QED
      BY <1>1 DEF TellsApart

LEMMA JobsFit ==
    ASSUME NEW j \in Job, NEW by
    PROVE  Fits([by |-> by, source |-> j.source, query |-> j.query, urls |-> j.urls, geo |-> j.geo])
  <1> DEFINE k == [by |-> by, source |-> j.source, query |-> j.query, urls |-> j.urls, geo |-> j.geo]
  <1>1. /\ k.source = j.source /\ k.query = j.query /\ k.urls = j.urls /\ k.geo = j.geo
      OBVIOUS
  <1> HIDE DEF k
  <1>2. /\ j.source \in Source /\ j.query \in BOOLEAN /\ j.urls \in Seq(Document) /\ j.geo \in BOOLEAN
      BY SourcesAssumption DEF JobRow
  <1>3. TellsApart(k)
      BY <1>1, EventsDiffer, SameAsked
  <1>4. \A d \in ToSet(j.urls) : Format[d] \in Reads(j.source)
    <2>1. ToSet(j.urls) \subseteq Document
        BY <1>2, ToSetOfSeq
    <2> QED
        BY <1>2, <2>1, FormatsFit
  <1>5. Fits(k)
      BY <1>1, <1>2, <1>3, <1>4 DEF Fits
  <1> QED
      BY <1>5 DEF k

LEMMA ScansFit ==
    ASSUME NEW s \in ToSet(GeoSources), NEW query \in BOOLEAN
    PROVE  Fits(ScanOf(s, query))
  <1> DEFINE j == ScanOf(s, query)
  <1>1. j.source = s /\ j.query = query /\ j.urls = << >> /\ j.geo = TRUE
      BY DEF ScanOf
  <1>2. s \in Source
      BY GeoSourcesAre
  <1>3. TellsApart(j)
      BY EventsDiffer
  <1> HIDE DEF j
  <1>4. << >> \in Seq(Document) /\ ToSet(<< >>) = {}
      BY NoneToSet
  <1>5. Fits(j)
      BY <1>1, <1>2, <1>3, <1>4 DEF Fits
  <1> QED
      BY <1>5 DEF j

LEMMA OutcomesOf ==
    ASSUME NEW j, NEW o \in Outcome(j)
    PROVE  o \in Outcomes
  BY DEF Outcome, Outcomes

\* create_source_run.
LEMMA BeginKeepsRInv ==
    ASSUME RInv, SInv', NEW j, BeginRun(j), Fits(j), j.by \in {"ingest", "job", "scan"},
           j.by = "scan" => \E s \in Source, query \in BOOLEAN : j = ScanOf(s, query),
           UNCHANGED <<start, rows, got>>, requests' \in 0 .. MaxRequests,
           queue' \in Seq(ToSet(GeoSources))
    PROVE  RInv'
  <1>1. /\ job' = j /\ run'.status = "started" /\ fetched'.items = << >> /\ stored' = 0
        /\ phase' = "fetch"
      BY DEF BeginRun, Nothing
  <1>2. Answerable'
      BY <1>1 DEF RInv, Answerable
  <1>3. SourcesTypeOK'
    <2>1. queue' \in Seq(Source) /\ j.source \in Source
        BY GeoSourcesAre DEF Fits
    <2> QED
        BY <1>1, <2>1 DEF RInv, SourcesTypeOK
  <1>4. JobFits'
      BY <1>1 DEF JobFits
  <1> QED
      BY <1>1, <1>2, <1>3, <1>4 DEF RInv, RowsAreOwn, ItemsStand, CompletedRunsKeepEveryEvent

\* Every step that touches neither the items nor the rows, nor opens or closes
\* a run.
LEMMA RestKeepsRInv ==
    ASSUME RInv, SInv', UNCHANGED <<rows, requests, job, got, fetched, stored, run>>, start' \in {0, 1},
           phase' \in {"idle", phase}, queue' \in {queue, << >>}
    PROVE  RInv'
  <1>1. queue' \in Seq(ToSet(GeoSources))
      BY NoneToSet DEF RInv, Answerable
  <1>2. queue' \in Seq(Source) /\ phase' \in {"idle", "next", "fetch", "store"}
      BY <1>1, GeoSourcesAre DEF RInv, SourcesTypeOK
  <1>3. SourcesTypeOK' /\ Answerable'
      BY <1>1, <1>2 DEF RInv, SourcesTypeOK, Answerable
  <1>4. JobFits' /\ ItemsStand'
      BY DEF RInv, JobFits, ItemsStand
  <1>5. RowsAreOwn' /\ CompletedRunsKeepEveryEvent'
      BY DEF RInv, RowsAreOwn, CompletedRunsKeepEveryEvent
  <1> QED
      BY <1>3, <1>4, <1>5 DEF RInv

\* scan_area.
LEMMA ScanKeepsRInv ==
    ASSUME RInv, SInv', NEW query \in BOOLEAN, Scan(query)
    PROVE  RInv'
  <1>1. /\ job' = ScanOf("luma", query) /\ run'.status = "none" /\ fetched'.items = << >>
        /\ stored' = 0 /\ phase' = "next" /\ queue' = GeoSources
        /\ requests < MaxRequests /\ requests' = requests + 1
        /\ UNCHANGED <<start, rows, got>>
      BY DEF Scan, NoJob, NoRun, Nothing
  <1>2. "luma" \in Source /\ MaxRequests \in Nat
      BY SourcesAssumption
  <1>3. queue' \in Seq(ToSet(GeoSources)) /\ queue' \in Seq(Source)
      BY <1>1, GeoSourcesAre
  <1>4. Answerable'
      BY <1>1, <1>3 DEF RInv, Answerable
  <1>5. job'.source = "luma" /\ job'.by = "scan"
      BY <1>1 DEF ScanOf
  <1>6. SourcesTypeOK'
      BY <1>1, <1>2, <1>3, <1>5 DEF RInv, SourcesTypeOK
  <1>7. JobFits'
      BY <1>1, <1>2, <1>5 DEF JobFits
  <1> QED
      BY <1>1, <1>4, <1>6, <1>7 DEF RInv, RowsAreOwn, ItemsStand, CompletedRunsKeepEveryEvent

LEMMA NextSourceKeepsRInv ==
    ASSUME RInv, SInv', NextSource
    PROVE  RInv'
  <1> DEFINE j == ScanOf(Head(queue), job.query)
  <1>1. /\ phase = "next" /\ queue # << >> /\ queue' = Tail(queue) /\ BeginRun(j)
        /\ UNCHANGED <<start, rows, requests, got>>
      BY DEF NextSource
  <1>2. \E s \in Source, query \in BOOLEAN : job = ScanOf(s, query)
      BY <1>1 DEF RInv, JobFits
  <1>3. job.query \in BOOLEAN
      BY <1>2 DEF ScanOf
  <1>4. Head(queue) \in ToSet(GeoSources) /\ Tail(queue) \in Seq(ToSet(GeoSources))
      BY <1>1, HeadTailProperties DEF RInv, Answerable
  <1>5. Head(queue) \in Source
      BY <1>4, GeoSourcesAre
  <1>6. Fits(j)
      BY <1>3, <1>4, ScansFit
  <1>7. j.by = "scan" /\ \E s \in Source, query \in BOOLEAN : j = ScanOf(s, query)
      BY <1>3, <1>5 DEF ScanOf
  <1>8. requests' \in 0 .. MaxRequests /\ queue' \in Seq(ToSet(GeoSources)) /\ UNCHANGED <<start, rows, got>>
      BY <1>1, <1>4 DEF RInv, SourcesTypeOK
  <1> HIDE DEF j
  <1> QED
      BY <1>1, <1>6, <1>7, <1>8, BeginKeepsRInv

\* ingest_signals and run_ingest_job.
LEMMA StartKeepsRInv ==
    ASSUME RInv, SInv', NEW by \in {"ingest", "job"}, NEW k \in Job, StartRun(by, k)
    PROVE  RInv'
  <1> DEFINE j == [by |-> by, source |-> k.source, query |-> k.query, urls |-> k.urls, geo |-> k.geo]
  <1>1. /\ requests < MaxRequests /\ requests' = requests + 1 /\ BeginRun(j)
        /\ UNCHANGED <<start, rows, queue, got>>
      BY DEF StartRun
  <1>2. Fits(j) /\ j.by = by
      BY JobsFit
  <1>3. requests' \in 0 .. MaxRequests /\ queue' \in Seq(ToSet(GeoSources)) /\ UNCHANGED <<start, rows, got>>
      BY <1>1, SourcesAssumption DEF RInv, SourcesTypeOK, Answerable
  <1> HIDE DEF j
  <1> QED
      BY <1>1, <1>2, <1>3, BeginKeepsRInv

\* The run is closed: it is owed what has a row.
LEMMA EndKeepsRInv ==
    ASSUME RInv, SInv', phase \in {"fetch", "store"},
           NEW status \in {"completed", "partial", "failed"}, NEW created, EndRun(status, created),
           UNCHANGED <<start, rows, requests, queue, job, stored>>,
           got' \in Outcomes, Len(fetched'.items) \in Nat, stored <= Len(fetched'.items),
           status = "completed" =>
               /\ \A d \in Asked(job) : got'[d] = "answers" \/ Unreported(d, got)'
               /\ \A e \in Owed(job, got)' : \E row \in rows : row.source = job.source /\ row.about = e
    PROVE  RInv'
  <1>1. run'.status = status /\ phase' = IF job.by = "scan" THEN "next" ELSE "idle"
      BY DEF EndRun
  <1>2. Answerable'
      BY DEF RInv, Answerable
  <1>3. SourcesTypeOK'
    <2>1. stored' \in 0 .. Len(fetched'.items)
        BY DEF RInv, SInv, StoredIsCounted
    <2> QED
        BY <1>1, <2>1 DEF RInv, SourcesTypeOK
  <1>4. JobFits' /\ ItemsStand'
      BY <1>1 DEF RInv, JobFits, ItemsStand
  <1>5. RowsAreOwn'
      BY DEF RInv, RowsAreOwn
  <1>6. CompletedRunsKeepEveryEvent'
    <2>1. Asked(job)' = Asked(job)
        BY DEF Asked, LumaAddresses, UrlsOf, GeoMode, AsksX
    <2> QED
        BY <1>1, <2>1 DEF CompletedRunsKeepEveryEvent
  <1> QED
      BY <1>2, <1>3, <1>4, <1>5, <1>6 DEF RInv

LEMMA FetchKeepsRInv ==
    ASSUME RInv, SInv', NEW o \in Outcomes, FetchDocuments(o)
    PROVE  RInv'
  <1> DEFINE r == Fetch(job, o)
  <1>1. /\ phase = "fetch" /\ got' = o /\ fetched' = r
        /\ IF r.raised THEN EndRun("failed", 0) ELSE phase' = "store" /\ UNCHANGED run
        /\ UNCHANGED <<start, rows, requests, queue, job, stored>>
      BY DEF FetchDocuments
  <1>2. Stands(r, job, Owed(job, o)) /\ Reports(r, job, o)
      BY <1>1, FetchStands, FetchReports DEF RInv, JobFits, SourcesTypeOK
  <1> HIDE DEF r
  <1>3. stored = 0
      BY <1>1 DEF RInv, SInv, OpenRunsCountNothing
  <1>4. Len(r.items) \in Nat
      BY <1>2, LenProperties DEF Stands
  <1>5. CASE r.raised
      BY <1>1, <1>3, <1>4, <1>5, EndKeepsRInv
  <1>6. CASE ~r.raised
    <2>1. phase' = "store" /\ UNCHANGED run
        BY <1>1, <1>6
    <2>2. run.status = "started"
        BY <1>1 DEF RInv, SInv, OpenRunsCountNothing
    <2>3. SourcesTypeOK' /\ Answerable' /\ JobFits'
        BY <1>1, <1>3, <1>4, <2>1 DEF RInv, SourcesTypeOK, Answerable, JobFits
    <2>4. ItemsStand'
      <3>1. Owed(job, got)' = Owed(job, o) /\ (Reports(fetched, job, got)' <=> Reports(r, job, o))
          BY <1>1 DEF Reports, Asked, LumaAddresses, UrlsOf, GeoMode, AsksX, Unreported
      <3>2. 1 .. stored' = {}
          BY <1>1, <1>3
      <3> QED
          BY <1>1, <1>2, <3>1, <3>2 DEF ItemsStand
    <2>5. RowsAreOwn' /\ CompletedRunsKeepEveryEvent'
        BY <1>1, <2>1, <2>2 DEF RInv, RowsAreOwn, CompletedRunsKeepEveryEvent
    <2> QED
        BY <2>3, <2>4, <2>5 DEF RInv
  <1> QED
      BY <1>5, <1>6

\* create_signal: the row of an item takes the place of its own old row only.
LEMMA StoreKeepsRInv ==
    ASSUME RInv, SInv', StoreSignal
    PROVE  RInv'
  <1> DEFINE items == fetched.items
             item == items[stored + 1]
             Row(x) == [source |-> job.source, id |-> x.id, about |-> x.about]
             Same(row) == row.source = job.source /\ row.id = item.id
             stays == {row \in rows : ~Same(row)}
  <1>1. /\ phase = "store" /\ stored < Len(items) /\ rows' = stays \cup {Row(item)}
        /\ stored' = stored + 1
        /\ UNCHANGED <<start, phase, requests, queue, job, got, fetched, run>>
      BY DEF StoreSignal
  <1>2. /\ items \in Seq(Made(job)) /\ Fits(job) /\ stored \in 0 .. Len(items) /\ Len(items) \in Nat
        /\ job.source \in Source /\ run.status = "started"
        /\ \A i \in 1 .. stored : Row(items[i]) \in rows
      BY <1>1 DEF RInv, ItemsStand, Stands, JobFits, SourcesTypeOK, Answerable, SInv, OpenRunsCountNothing
  <1>3. stored + 1 \in 1 .. Len(items) /\ \A i \in 1 .. stored + 1 : i \in 1 .. Len(items)
      BY <1>1, <1>2
  <1>4. \A i \in 1 .. Len(items) : items[i] \in Made(job)
      BY <1>2, LenProperties
  <1>5. item \in Made(job)
      BY <1>3, <1>4
  <1> DEFINE Owned(about, id) == \E d \in Document : about \in ToSet(Lists[d]) /\ id \in OwnIds(d, about)
  <1>6. item.about \in Listing => Owned(item.about, item.id)
    <2>1. Asked(job) \subseteq Document
        BY <1>2, AskedAre
    <2>2. \A d \in Document : d \notin Listing
        BY SourcesAssumption
    <2>3. "mock" \notin Listing
        BY SourcesAssumption
    <2>4. CASE \E d \in Asked(job) : item = PageText(d)
        BY <2>1, <2>2, <2>4 DEF PageText
    <2>5. CASE item.about = "mock"
        BY <2>3, <2>5
    <2>6. CASE \E d \in Asked(job) : item.about \in ToSet(Lists[d]) /\ item.id \in OwnIds(d, item.about)
        BY <2>1, <2>6
    <2> QED
        BY <1>5, <2>4, <2>5, <2>6, MadeAre
  <1>7. \A i \in 1 .. stored : items[i].id = item.id => items[i] = item
    <2> SUFFICES ASSUME NEW i \in 1 .. stored, items[i].id = item.id
                 PROVE  items[i] = item
        OBVIOUS
    <2>1. items[i] \in Made(job)
        BY <1>2, <1>4
    <2>2. TellsApart(job) /\ Asked(job) \subseteq Document
        BY <1>2, AskedAre DEF Fits
    <2> HIDE DEF item, items
    <2> QED
        BY <1>5, <2>1, <2>2, IdsDiffer
  <1> HIDE DEF items, item
  <1>8. /\ \A row \in rows : row.about \in Listing => Owned(row.about, row.id)
        /\ \A r, q \in rows : r.source = q.source /\ r.id = q.id => r = q
      BY DEF RInv, RowsAreOwn
  <1>9. \A row \in rows' : row.about \in Listing => Owned(row.about, row.id)
    <2> HIDE DEF Owned
    <2> QED
        BY <1>1, <1>6, <1>8
  <1>10. \A r, q \in rows' : r.source = q.source /\ r.id = q.id => r = q
      BY <1>1, <1>8
  <1>11. RowsAreOwn'
      BY <1>9, <1>10 DEF RowsAreOwn
  <1>12. \A i \in 1 .. stored + 1 : Row(items[i]) \in rows'
    <2> SUFFICES ASSUME NEW i \in 1 .. stored + 1
                 PROVE  Row(items[i]) \in rows'
        OBVIOUS
    <2>1. CASE i = stored + 1
        BY <1>1, <2>1 DEF item
    <2>2. CASE i # stored + 1
      <3>1. i \in 1 .. stored
          BY <1>2, <2>2
      <3>2. Row(items[i]) \in rows
          BY <1>2, <3>1 DEF items
      <3>3. CASE items[i].id = item.id
          BY <1>1, <1>7, <3>1, <3>3
      <3>4. CASE items[i].id # item.id
          BY <1>1, <3>2, <3>4
      <3> QED
          BY <3>3, <3>4
    <2> QED
        BY <2>1, <2>2
  <1>13. ItemsStand'
      BY <1>1, <1>12 DEF RInv, ItemsStand, items
  <1>14. SourcesTypeOK'
    <2>1. \A row \in rows' : row.source \in Source
        BY <1>1, <1>2 DEF RInv, SourcesTypeOK
    <2>2. stored' \in 0 .. Len(fetched'.items)
        BY <1>1, <1>2 DEF items
    <2> QED
        BY <1>1, <2>1, <2>2 DEF RInv, SourcesTypeOK
  <1>15. Answerable' /\ JobFits'
      BY <1>1 DEF RInv, Answerable, JobFits
  <1>16. CompletedRunsKeepEveryEvent'
      BY <1>1, <1>2 DEF CompletedRunsKeepEveryEvent
  <1> QED
      BY <1>11, <1>13, <1>14, <1>15, <1>16 DEF RInv

LEMMA StoreFailsKeepsRInv ==
    ASSUME RInv, SInv', StoreFails
    PROVE  RInv'
  <1> DEFINE created == IF job.by = "ingest" THEN stored ELSE 0
  <1>1. /\ phase = "store" /\ EndRun("failed", created)
        /\ UNCHANGED <<start, rows, requests, queue, job, got, fetched, stored>>
      BY DEF StoreFails
  <1>2. got' \in Outcomes /\ Len(fetched'.items) \in Nat /\ stored <= Len(fetched'.items)
      BY <1>1 DEF RInv, Answerable, SourcesTypeOK
  <1> HIDE DEF created
  <1> QED
      BY <1>1, <1>2, EndKeepsRInv

\* Everything was stored: what a run without errors owes has a row.
LEMMA FinishKeepsRInv ==
    ASSUME RInv, SInv', FinishRun
    PROVE  RInv'
  <1> DEFINE status == IF fetched.errors = {} THEN "completed" ELSE IF stored > 0 THEN "partial" ELSE "failed"
             items == fetched.items
  <1>1. /\ phase = "store" /\ stored = Len(items) /\ EndRun(status, stored)
        /\ UNCHANGED <<start, rows, requests, queue, job, got, fetched, stored>>
      BY DEF FinishRun
  <1>2. /\ status \in {"completed", "partial", "failed"}
        /\ status = "completed" => fetched.errors = {}
      OBVIOUS
  <1>3. /\ items \in Seq(Made(job)) /\ ~fetched.raised
        /\ fetched.errors = {} /\ ~fetched.raised => Covers(items, Owed(job, got))
        /\ Reports(fetched, job, got)
        /\ \A i \in 1 .. stored :
              [source |-> job.source, id |-> items[i].id, about |-> items[i].about] \in rows
      BY <1>1 DEF RInv, ItemsStand, Stands, SInv, OpenRunsCountNothing
  <1>4. ASSUME status = "completed", NEW e \in Owed(job, got)
        PROVE  \E row \in rows : row.source = job.source /\ row.about = e
    <2>1. PICK x \in ToSet(items) : x.about = e
        BY <1>2, <1>3, <1>4 DEF Covers
    <2>2. PICK i \in 1 .. stored : items[i] = x
        BY <1>1, <1>3, <2>1, LenProperties DEF ToSet
    <2>3. [source |-> job.source, id |-> items[i].id, about |-> items[i].about] \in rows
        BY <1>3
    <2> QED
        BY <2>1, <2>2, <2>3
  <1> HIDE DEF status
  <1>5. got' \in Outcomes /\ Len(fetched'.items) \in Nat /\ stored <= Len(fetched'.items)
      BY <1>1 DEF RInv, Answerable, SourcesTypeOK
  <1>6. Owed(job, got)' = Owed(job, got)
      BY <1>1
  <1>7. status = "completed" =>
            \A e \in Owed(job, got)' : \E row \in rows : row.source = job.source /\ row.about = e
      BY <1>4, <1>6
  <1>8. status = "completed" => \A d \in Asked(job) : got'[d] = "answers" \/ Unreported(d, got)'
      BY <1>1, <1>2, <1>3 DEF Reports, Unreported
  <1> QED
      BY <1>1, <1>2, <1>5, <1>7, <1>8, EndKeepsRInv

LEMMA NextRInv == RInv /\ [SourcesNext]_sourcesVars => RInv'
  <1> SUFFICES ASSUME RInv, [SourcesNext]_sourcesVars PROVE RInv'
      OBVIOUS
  <1>1. SInv'
      BY NextSInv DEF RInv
  <1>2. ASSUME NEW j \in Job, Ingest(j) \/ IngestJob(j) PROVE RInv'
      BY <1>1, <1>2, StartKeepsRInv DEF Ingest, IngestJob
  <1>3. ASSUME NEW query \in BOOLEAN, Scan(query) PROVE RInv'
      BY <1>1, <1>3, ScanKeepsRInv
  <1>4. CASE NextSource
      BY <1>1, <1>4, NextSourceKeepsRInv
  <1>5. ASSUME NEW late \in BOOLEAN, EndScan(late) PROVE RInv'
    <2>1. /\ UNCHANGED <<rows, requests, job, got, fetched, stored, run>> /\ start' = start
          /\ phase' = "idle" /\ queue' = << >>
        BY <1>5 DEF EndScan
    <2>2. start' \in {0, 1}
        BY <2>1 DEF RInv, SourcesTypeOK
    <2> QED
        BY <1>1, <2>1, <2>2, RestKeepsRInv
  <1>6. ASSUME NEW o \in Outcome(job), FetchDocuments(o) PROVE RInv'
      BY <1>1, <1>6, OutcomesOf, FetchKeepsRInv
  <1>7. CASE StoreSignal
      BY <1>1, <1>7, StoreKeepsRInv
  <1>8. CASE StoreFails
      BY <1>1, <1>8, StoreFailsKeepsRInv
  <1>9. CASE FinishRun
      BY <1>1, <1>9, FinishKeepsRInv
  <1>10. CASE Die
    <2>1. /\ UNCHANGED <<rows, requests, job, got, fetched, stored, run>> /\ start' = start
          /\ phase' = "idle" /\ queue' = << >>
        BY <1>10 DEF Die
    <2>2. start' \in {0, 1}
        BY <2>1 DEF RInv, SourcesTypeOK
    <2> QED
        BY <1>1, <2>1, <2>2, RestKeepsRInv
  <1>11. CASE Reschedule
    <2>1. /\ UNCHANGED <<rows, requests, job, got, fetched, stored, run>> /\ start' = 1 - start
          /\ phase' = phase /\ queue' = queue
        BY <1>11 DEF Reschedule
    <2>2. start' \in {0, 1}
        BY <2>1 DEF RInv, SourcesTypeOK
    <2> QED
        BY <1>1, <2>1, <2>2, RestKeepsRInv
  <1>12. CASE UNCHANGED sourcesVars
    <2>1. /\ UNCHANGED <<rows, requests, job, got, fetched, stored, run>> /\ start' = start
          /\ phase' = phase /\ queue' = queue
        BY <1>12 DEF sourcesVars
    <2>2. start' \in {0, 1}
        BY <2>1 DEF RInv, SourcesTypeOK
    <2> QED
        BY <1>1, <2>1, <2>2, RestKeepsRInv
  <1> QED
      BY <1>2, <1>3, <1>4, <1>5, <1>6, <1>7, <1>8, <1>9, <1>10, <1>11, <1>12 DEF SourcesNext

LEMMA SpecRInv == SourcesSpec => []RInv
  BY InitRInv, NextRInv, PTL DEF SourcesSpec

\* The state of a run is of its type: a job of a source there is, a count within
\* what was fetched, rows of sources there are.
THEOREM SourcesTypes == SourcesSpec => []SourcesTypeOK
  <1>1. RInv => SourcesTypeOK
      BY DEF RInv
  <1> QED
      BY <1>1, SpecRInv, PTL

\* A run called completed lost nothing that it could read: none of its requests
\* failed, only calendars and pages may have come unreadable, and every event and
\* every page's text it had to keep has a row that no other of the source took, for
\* all documents, jobs and answers, provided that something tells the events of a
\* run apart (EventsDiffer; adapters.py:187-203, :242-244, signals.py:112).
THEOREM CompletedRunsLoseNothing == SourcesSpec => []CompletedRunsKeepEveryEvent
  <1>1. RInv => CompletedRunsKeepEveryEvent
      BY DEF RInv
  <1> QED
      BY <1>1, SpecRInv, PTL

\* Asking again updates: the rows of an event differ in the kind of their id,
\* or carry the start times of a nameless one (adapters.py:13-15,
\* event_service.py:386-388).
THEOREM EventsKeepTheirRow == SourcesSpec => []OneRowPerEvent
  <1>1. RInv => OneRowPerEvent
    <2> SUFFICES ASSUME RInv, NEW r \in rows, NEW q \in rows,
                        r.about \in Listing, q.about = r.about, q.source = r.source, q.id[1] = r.id[1], q # r
                 PROVE  r.id[1] = "hash" /\ Nameless(r.id[2], r.about)
        BY DEF OneRowPerEvent
    <2>1. PICK d \in Document : r.id \in OwnIds(d, r.about)
        BY DEF RInv, RowsAreOwn
    <2>2. PICK c \in Document : q.id \in OwnIds(c, r.about)
        BY DEF RInv, RowsAreOwn
    <2>3. q.id # r.id
        BY DEF RInv, RowsAreOwn
    <2>4. CASE r.id[1] = "hash"
        BY <2>1, <2>4, IdsSay
    <2>5. CASE r.id[1] \in {"id", "path", "slug"}
      <3>1. r.id = q.id
          BY <2>1, <2>2, <2>5, IdsSay
      <3> QED
          BY <2>3, <3>1
    <2>6. r.id[1] \in {"id", "path", "slug", "hash"}
        BY <2>1, IdsSay
    <2> QED
        BY <2>4, <2>5, <2>6
  <1> QED
      BY <1>1, SpecRInv, PTL
=============================================================================
