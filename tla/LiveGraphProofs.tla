--------------------------- MODULE LiveGraphProofs ---------------------------
(***************************************************************************)
(* Proofs about LiveGraph, for any number of traces: type correctness, the *)
(* hub pushes what the window shows, and the device shows those traces.    *)
(***************************************************************************)
EXTENDS LiveGraph, FiniteSetTheorems, SequenceTheorems, TLAPS

Has(s, op) == \E i \in 1..Len(s) : s[i].op = op

Enabling(s, t) == \E i \in 1..Len(s) : s[i].op = "enable" /\ s[i].id = t

\* What may come after an item in the list of a handler.
Follow(op) ==
    {"show", "hide"} \cup
    (CASE op = "halt" -> {"unsubscribe", "enable", "register", "subscribe"}
       [] op \in {"unsubscribe", "enable"} -> {"enable", "register", "subscribe"}
       [] op = "register" -> {"subscribe"}
       [] op = "subscribe" -> {}
       [] OTHER -> {"halt", "unsubscribe", "enable", "register", "subscribe"})

Ordered(s) ==
    \A i, j \in 1..Len(s) : i < j => s[j].op \in Follow(s[i].op)

\* Items that only show and hide traces, and hide none of ids.
Aside(s, ids) ==
    /\ s \in Seq(Work)
    /\ \A i \in 1..Len(s) : s[i].op = "show" \/ (s[i].op = "hide" /\ s[i].id \notin ids)

\* A list that brings the panel and the hub from where they are to the traces
\* ids.
Brings(s, ids) ==
    /\ s \in Seq(Work) /\ Ordered(s)
    /\ \A i \in 1..Len(s) : s[i].op = "hide" => s[i].id \notin ids
    /\ Has(s, "register") <=> ids # {}
    /\ Has(s, "subscribe") <=> ids # {}
    /\ ids = {} => Has(s, "halt") /\ Has(s, "unsubscribe")
    /\ Has(s, "halt") <=> Has(s, "unsubscribe")
    /\ \A t \in ids : Enabling(s, t)

\* What the list of the running handler still brings about.
ListInv ==
    /\ Ordered(todo)
    /\ Has(todo, "subscribe") => Shown # {} /\ (running \/ Has(todo, "register"))
    /\ Has(todo, "register") => Has(todo, "subscribe")
    /\ Has(todo, "halt") => Has(todo, "unsubscribe")
    /\ Has(todo, "unsubscribe") /\ Has(todo, "subscribe") => Has(todo, "register")
    /\ Has(todo, "unsubscribe") /\ ~Has(todo, "subscribe") => ~running \/ Has(todo, "halt")

\* The hub pushes what is shown, unless the list still sees to it.
PushInv ==
    alive /\ ~Has(todo, "unsubscribe") /\ ~Has(todo, "subscribe") =>
        IF running THEN sub = Shown \/ (sub = {} /\ failed) ELSE sub = {}

\* Traces that are shown are enabled, unless the list still sees to it.
EnableInv ==
    /\ Has(todo, "subscribe") => \A t \in Shown : t \in enabled \cup unsure \/ Enabling(todo, t)
    /\ ~Has(todo, "unsubscribe") /\ ~Has(todo, "subscribe") /\ running =>
           Shown \subseteq enabled \cup unsure
    /\ \A i \in 1..Len(todo) : todo[i].op = "hide" => todo[i].id \notin Shown

GraphInv == TypeOK /\ ListInv /\ PushInv /\ EnableInv

----------------------------------------------------------------------------
(* The lists of the handlers. *)

LEMMA Injection1 ==
    ASSUME NEW S, IsFiniteSet(S), NEW f \in [1..Cardinality(S) -> S], IsInjective(f)
    PROVE  \A x \in S : \E i \in 1..Cardinality(S) : f[i] = x
<1> DEFINE n == Cardinality(S)
           T == {f[i] : i \in 1..n}
<1>1. n \in Nat
  BY FS_CardinalityType
<1>2. f \in Bijection(1..n, T)
  BY SMT DEF Bijection, Injection, Surjection, IsInjective
<1>3. ExistsBijection(1..n, T)
  BY <1>2, Zenon DEF ExistsBijection
<1>4. Cardinality(T) = n
  BY <1>1, <1>3, FS_CountingElements
<1>5. T \in SUBSET S
  OBVIOUS
<1>6. S = T
  BY <1>4, <1>5, FS_Subset
<1> QED
  BY <1>6

LEMMA SetToSeqMembers ==
    ASSUME NEW S, IsFiniteSet(S)
    PROVE  /\ SetToSeq(S) \in Seq(S)
           /\ \A x \in S : \E i \in 1..Len(SetToSeq(S)) : SetToSeq(S)[i] = x
<1>1. Cardinality(S) \in Nat /\ ExistsBijection(1..Cardinality(S), S)
  BY FS_CardinalityType
<1>2. PICK g \in Bijection(1..Cardinality(S), S) : TRUE
  BY <1>1, Zenon DEF ExistsBijection
<1>3. g \in [1..Cardinality(S) -> S] /\ IsInjective(g)
  BY <1>2, SMT DEF Bijection, Injection
<1> DEFINE f == SetToSeq(S)
<1>4. f \in [1..Cardinality(S) -> S] /\ IsInjective(f)
  BY <1>3, Zenon DEF SetToSeq
<1> HIDE DEF f
<1>5. f \in Seq(S) /\ Len(f) = Cardinality(S)
  BY <1>1, <1>4
<1>6. \A x \in S : \E i \in 1..Cardinality(S) : f[i] = x
  BY <1>4, Injection1
<1> QED
  BY <1>5, <1>6 DEF f

EnableItems(ids) == [op : {"enable"}, id : ids]

LEMMA EnableList ==
    ASSUME NEW ids \in SUBSET Traces
    PROVE  /\ SetToSeq(EnableItems(ids)) \in Seq(Work)
           /\ \A i \in 1..Len(SetToSeq(EnableItems(ids))) : SetToSeq(EnableItems(ids))[i].op = "enable"
           /\ \A t \in ids : Enabling(SetToSeq(EnableItems(ids)), t)
<1>1. IsFiniteSet(ids)
  BY TracesAssumption, FS_Subset
<1>2. [t \in ids |-> [op |-> "enable", id |-> t]] \in Bijection(ids, EnableItems(ids))
  BY SMT DEF Bijection, Injection, Surjection, IsInjective, EnableItems
<1>3. IsFiniteSet(EnableItems(ids))
  <2>1. ExistsBijection(ids, EnableItems(ids))
    BY <1>2, Zenon DEF ExistsBijection
  <2> QED
    BY <1>1, <2>1, FS_Bijection
<1> DEFINE s == SetToSeq(EnableItems(ids))
<1>4. s \in Seq(EnableItems(ids)) /\ \A x \in EnableItems(ids) : \E i \in 1..Len(s) : s[i] = x
  BY <1>3, SetToSeqMembers
<1> HIDE DEF s
<1>5. EnableItems(ids) \subseteq Work
  BY DEF EnableItems, Work
<1>6. \A i \in 1..Len(s) : s[i] \in EnableItems(ids)
  BY <1>4
<1>7. s \in Seq(Work)
  BY <1>4, <1>5
<1>8. \A t \in ids : [op |-> "enable", id |-> t] \in EnableItems(ids)
  BY DEF EnableItems
<1>9. ASSUME NEW t \in ids PROVE Enabling(s, t)
  <2>1. PICK i \in 1..Len(s) : s[i] = [op |-> "enable", id |-> t]
    BY <1>4, <1>8
  <2> QED
    BY <2>1 DEF Enabling
<1>10. \A i \in 1..Len(s) : s[i].op = "enable"
  BY <1>6 DEF EnableItems
<1> QED
  BY <1>7, <1>9, <1>10 DEF s

LEMMA ConcatItems ==
    ASSUME NEW a \in Seq(Work), NEW b \in Seq(Work)
    PROVE  /\ a \o b \in Seq(Work)
           /\ \A i \in 1..Len(a \o b) :
                  \/ i \in 1..Len(a) /\ (a \o b)[i] = a[i]
                  \/ i > Len(a) /\ i - Len(a) \in 1..Len(b) /\ (a \o b)[i] = b[i - Len(a)]
           /\ \A i \in 1..Len(a) : i \in 1..Len(a \o b) /\ (a \o b)[i] = a[i]
           /\ \A i \in 1..Len(b) : i + Len(a) \in 1..Len(a \o b) /\ (a \o b)[i + Len(a)] = b[i]
<1>1. Len(a) \in Nat /\ Len(b) \in Nat
  OBVIOUS
<1>2. /\ a \o b \in Seq(Work) /\ Len(a \o b) = Len(a) + Len(b)
      /\ \A i \in 1..(Len(a) + Len(b)) : (a \o b)[i] = IF i <= Len(a) THEN a[i] ELSE b[i - Len(a)]
  BY ConcatProperties
<1> QED
  BY <1>1, <1>2

LEMMA ConcatHas ==
    ASSUME NEW a \in Seq(Work), NEW b \in Seq(Work)
    PROVE  /\ \A op : Has(a \o b, op) <=> Has(a, op) \/ Has(b, op)
           /\ \A t : Enabling(a \o b, t) <=> Enabling(a, t) \/ Enabling(b, t)
<1> DEFINE c == a \o b
<1>1. /\ \A i \in 1..Len(c) : \/ i \in 1..Len(a) /\ c[i] = a[i]
                              \/ i > Len(a) /\ i - Len(a) \in 1..Len(b) /\ c[i] = b[i - Len(a)]
      /\ \A i \in 1..Len(a) : i \in 1..Len(c) /\ c[i] = a[i]
      /\ \A i \in 1..Len(b) : i + Len(a) \in 1..Len(c) /\ c[i + Len(a)] = b[i]
  BY ConcatItems
<1> HIDE DEF c
<1>2. ASSUME NEW op PROVE Has(c, op) <=> Has(a, op) \/ Has(b, op)
  <2>1. Has(a, op) => Has(c, op)
    BY <1>1, Zenon DEF Has
  <2>2. Has(b, op) => Has(c, op)
    <3>1. ASSUME NEW i \in 1..Len(b), b[i].op = op PROVE Has(c, op)
      <4>1. i + Len(a) \in 1..Len(c) /\ c[i + Len(a)] = b[i]
        BY <1>1, Zenon
      <4> QED
        BY <3>1, <4>1, Zenon DEF Has
    <3> QED
      BY <3>1, Zenon DEF Has
  <2>3. Has(c, op) => Has(a, op) \/ Has(b, op)
    BY <1>1, Zenon DEF Has
  <2> QED
    BY <2>1, <2>2, <2>3, Zenon
<1>3. ASSUME NEW t PROVE Enabling(c, t) <=> Enabling(a, t) \/ Enabling(b, t)
  <2>1. Enabling(a, t) => Enabling(c, t)
    BY <1>1, Zenon DEF Enabling
  <2>2. Enabling(b, t) => Enabling(c, t)
    <3>1. ASSUME NEW i \in 1..Len(b), b[i].op = "enable", b[i].id = t PROVE Enabling(c, t)
      <4>1. i + Len(a) \in 1..Len(c) /\ c[i + Len(a)] = b[i]
        BY <1>1, Zenon
      <4> QED
        BY <3>1, <4>1, Zenon DEF Enabling
    <3> QED
      BY <3>1, Zenon DEF Enabling
  <2>3. Enabling(c, t) => Enabling(a, t) \/ Enabling(b, t)
    <3>1. ASSUME NEW i \in 1..Len(c), c[i].op = "enable", c[i].id = t
          PROVE  Enabling(a, t) \/ Enabling(b, t)
      <4>1. CASE i \in 1..Len(a) /\ c[i] = a[i]
        BY <3>1, <4>1, Zenon DEF Enabling
      <4>2. CASE i - Len(a) \in 1..Len(b) /\ c[i] = b[i - Len(a)]
        BY <3>1, <4>2, Zenon DEF Enabling
      <4> QED
        BY <1>1, <4>1, <4>2, Zenon
    <3> QED
      BY <3>1, Zenon DEF Enabling
  <2> QED
    BY <2>1, <2>2, <2>3, Zenon
<1> QED
  BY <1>2, <1>3, Zenon DEF c

LEMMA ConcatOrdered ==
    ASSUME NEW a \in Seq(Work), NEW b \in Seq(Work), Ordered(a), Ordered(b),
           \A i \in 1..Len(a), j \in 1..Len(b) : b[j].op \in Follow(a[i].op)
    PROVE  Ordered(a \o b)
<1> DEFINE c == a \o b
<1>1. \A i \in 1..Len(c) : \/ i \in 1..Len(a) /\ c[i] = a[i]
                           \/ i > Len(a) /\ i - Len(a) \in 1..Len(b) /\ c[i] = b[i - Len(a)]
  BY ConcatItems
<1>2. Len(a) \in Nat /\ Len(c) \in Nat
  BY ConcatItems
<1> HIDE DEF c
<1> SUFFICES ASSUME NEW i \in 1..Len(c), NEW j \in 1..Len(c), i < j
             PROVE  c[j].op \in Follow(c[i].op)
  BY DEF Ordered, c
<1>3. CASE j \in 1..Len(a) /\ c[j] = a[j]
  <2>1. i \in 1..Len(a) /\ c[i] = a[i]
    BY <1>1, <1>2, <1>3
  <2> QED
    BY <1>3, <2>1 DEF Ordered
<1>4. CASE j > Len(a) /\ j - Len(a) \in 1..Len(b) /\ c[j] = b[j - Len(a)]
  <2>1. CASE i \in 1..Len(a) /\ c[i] = a[i]
    BY <1>4, <2>1
  <2>2. CASE i > Len(a) /\ i - Len(a) \in 1..Len(b) /\ c[i] = b[i - Len(a)]
    <3>1. i - Len(a) < j - Len(a)
      BY <1>2
    <3> QED
      BY <1>4, <2>2, <3>1 DEF Ordered
  <2> QED
    BY <1>1, <2>1, <2>2
<1> QED
  BY <1>1, <1>3, <1>4

LEMMA AsideConcat ==
    ASSUME NEW ids, NEW a, NEW b, Aside(a, ids), Aside(b, ids)
    PROVE  Aside(a \o b, ids)
<1>1. a \in Seq(Work) /\ b \in Seq(Work)
  BY DEF Aside
<1> DEFINE c == a \o b
<1>2. c \in Seq(Work)
      /\ \A i \in 1..Len(c) : \/ i \in 1..Len(a) /\ c[i] = a[i]
                              \/ i > Len(a) /\ i - Len(a) \in 1..Len(b) /\ c[i] = b[i - Len(a)]
  BY <1>1, ConcatItems
<1> HIDE DEF c
<1> QED
  BY <1>2 DEF Aside, c

\* Showing and hiding other traces before or after a list makes no difference.
LEMMA AsideBrings ==
    ASSUME NEW ids, NEW a, NEW s, Aside(a, ids), Brings(s, ids)
    PROVE  Brings(a \o s, ids) /\ Brings(s \o a, ids)
<1>1. a \in Seq(Work) /\ s \in Seq(Work) /\ Ordered(s)
  BY DEF Aside, Brings
<1>2. \A op : Has(a, op) => op \in {"show", "hide"}
  BY DEF Aside, Has
<1>3. \A op \in {"show", "hide"} : \A x : op \in Follow(x)
  BY DEF Follow
<1>4. \A i \in 1..Len(s) : s[i] \in Work
  BY <1>1
<1>5. \A w \in Work, op \in {"show", "hide"} : w.op \in Follow(op)
  BY DEF Work, Follow
<1>6. Ordered(a)
  BY <1>3 DEF Aside, Ordered
<1>7. Ordered(a \o s) /\ Ordered(s \o a)
  BY <1>1, <1>3, <1>4, <1>5, <1>6, ConcatOrdered DEF Aside
<1>8. \A i \in 1..Len(a \o s) : (a \o s)[i].op = "hide" => (a \o s)[i].id \notin ids
  BY <1>1, ConcatItems DEF Aside, Brings
<1>9. \A i \in 1..Len(s \o a) : (s \o a)[i].op = "hide" => (s \o a)[i].id \notin ids
  BY <1>1, ConcatItems DEF Aside, Brings
<1>10. \A op \in {"halt", "unsubscribe", "register", "subscribe"} :
           (Has(a \o s, op) <=> Has(s, op)) /\ (Has(s \o a, op) <=> Has(s, op))
  BY <1>1, <1>2, ConcatHas
<1>11. \A t : Enabling(s, t) => Enabling(a \o s, t) /\ Enabling(s \o a, t)
  BY <1>1, ConcatHas
<1>12. a \o s \in Seq(Work) /\ s \o a \in Seq(Work)
  BY <1>1, ConcatItems
<1> QED
  BY <1>7, <1>8, <1>9, <1>10, <1>11, <1>12 DEF Brings

LEMMA ManageAside ==
    ASSUME NEW t \in Traces, NEW boxes, NEW chosen, NEW ids, t \in ids => t \in boxes \/ t = chosen
    PROVE  Aside(Manage(t, boxes, chosen), ids)
<1> DEFINE w == [op |-> IF t \in boxes \/ t = chosen THEN "show" ELSE "hide", id |-> t]
<1>1. w \in Work /\ (w.op = "show" \/ (w.op = "hide" /\ w.id \notin ids))
  BY DEF Work
<1> HIDE DEF w
<1>2. Manage(t, boxes, chosen) = <<w>>
  BY DEF Manage, w
<1> QED
  BY <1>1, <1>2 DEF Aside

LEMMA StopBrings == Brings(StopItems, {})
<1> DEFINE h == Item("halt")
           u == Item("unsubscribe")
<1>1. /\ h \in Work /\ u \in Work /\ h.op = "halt" /\ u.op = "unsubscribe"
      /\ "unsubscribe" \in Follow("halt")
  BY DEF Item, Work, Follow
<1> HIDE DEF h, u
<1>2. StopItems = <<h, u>>
  BY DEF StopItems, h, u
<1>3. StopItems \in Seq(Work) /\ Len(StopItems) = 2 /\ StopItems[1] = h /\ StopItems[2] = u
  BY <1>1, <1>2
<1>4. Ordered(StopItems)
  BY <1>1, <1>3 DEF Ordered
<1>5. \A op : Has(StopItems, op) <=> op \in {"halt", "unsubscribe"}
  BY <1>1, <1>3 DEF Has
<1>6. \A i \in 1..Len(StopItems) : StopItems[i].op # "hide"
  BY <1>1, <1>3
<1> QED
  BY <1>3, <1>4, <1>5, <1>6 DEF Brings

LEMMA StartBrings ==
    ASSUME NEW ids \in SUBSET Traces, ids # {}
    PROVE  Brings(StartItems(ids), ids)
<1> DEFINE a == IF running THEN StopItems ELSE <<>>
           b == SetToSeq(EnableItems(ids))
           r == Item("register")
           u == Item("subscribe")
           c == <<r, u>>
<1>1. /\ a \in Seq(Work) /\ Ordered(a) /\ (Has(a, "halt") <=> Has(a, "unsubscribe"))
      /\ \A i \in 1..Len(a) : a[i].op \in {"halt", "unsubscribe"}
  <2>1. StopItems \in Seq(Work) /\ Ordered(StopItems)
        /\ Has(StopItems, "halt") /\ Has(StopItems, "unsubscribe")
    BY StopBrings DEF Brings
  <2>2. \A i \in 1..Len(StopItems) : StopItems[i].op \in {"halt", "unsubscribe"}
    BY DEF StopItems, Item
  <2>3. <<>> \in Seq(Work) /\ Ordered(<<>>) /\ ~Has(<<>>, "halt") /\ ~Has(<<>>, "unsubscribe")
    BY DEF Ordered, Has
  <2> QED
    BY <2>1, <2>2, <2>3
<1>2. /\ b \in Seq(Work) /\ \A i \in 1..Len(b) : b[i].op = "enable"
      /\ \A t \in ids : Enabling(b, t)
  BY EnableList
<1>3. /\ r \in Work /\ u \in Work /\ r.op = "register" /\ u.op = "subscribe"
  BY DEF Item, Work
<1>4. /\ "enable" \in Follow("enable") /\ "subscribe" \in Follow("register")
      /\ {"register", "subscribe"} \subseteq Follow("enable")
      /\ {"enable", "register", "subscribe"} \subseteq Follow("halt")
      /\ {"enable", "register", "subscribe"} \subseteq Follow("unsubscribe")
  BY DEF Follow
<1> HIDE DEF r, u, b
<1>5. c \in Seq(Work) /\ Len(c) = 2 /\ c[1].op = "register" /\ c[2].op = "subscribe"
  BY <1>3
<1> HIDE DEF c
<1>6. Ordered(b) /\ Ordered(c)
  BY <1>2, <1>4, <1>5 DEF Ordered
<1> DEFINE ab == a \o b
<1> HIDE DEF a
<1>7. ab \in Seq(Work) /\ Ordered(ab)
  BY <1>1, <1>2, <1>4, <1>6, ConcatItems, ConcatOrdered
<1>8. \A i \in 1..Len(ab) : ab[i].op \in {"halt", "unsubscribe", "enable"}
  BY <1>1, <1>2, ConcatItems
<1>9. \A op : Has(ab, op) <=> Has(a, op) \/ Has(b, op)
  BY <1>1, <1>2, ConcatHas
<1>10. \A t \in ids : Enabling(ab, t)
  BY <1>1, <1>2, ConcatHas
<1> HIDE DEF ab
<1> DEFINE s == ab \o c
<1>11. s \in Seq(Work) /\ Ordered(s)
  <2>1. \A i \in 1..Len(ab), j \in 1..Len(c) : c[j].op \in Follow(ab[i].op)
    BY <1>4, <1>5, <1>8
  <2> QED
    BY <1>5, <1>6, <1>7, <2>1, ConcatItems, ConcatOrdered
<1>12. \A i \in 1..Len(s) : s[i].op # "hide"
  <2>1. \A i \in 1..Len(c) : c[i].op \in {"register", "subscribe"}
    BY <1>5
  <2>2. \A i \in 1..Len(s) :
            \/ i \in 1..Len(ab) /\ s[i] = ab[i]
            \/ i - Len(ab) \in 1..Len(c) /\ s[i] = c[i - Len(ab)]
    BY <1>5, <1>7, ConcatItems
  <2> HIDE DEF s
  <2> QED
    BY <1>8, <2>1, <2>2
<1>13. \A op : Has(s, op) <=> Has(ab, op) \/ Has(c, op)
  BY <1>5, <1>7, ConcatHas
<1>14. Has(c, "register") /\ Has(c, "subscribe") /\ ~Has(c, "halt") /\ ~Has(c, "unsubscribe")
  BY <1>5 DEF Has
<1>15. ~Has(b, "halt") /\ ~Has(b, "unsubscribe")
  BY <1>2 DEF Has
<1>16. \A t \in ids : Enabling(s, t)
  BY <1>5, <1>7, <1>10, ConcatHas
<1>17. StartItems(ids) = s
  BY DEF StartItems, EnableItems, a, b, ab, c, r, u, s
<1> HIDE DEF s
<1> QED
  BY <1>1, <1>9, <1>11, <1>12, <1>13, <1>14, <1>15, <1>16, <1>17 DEF Brings

LEMMA UpdateBrings == ASSUME NEW ids \in SUBSET Traces PROVE Brings(Update(ids), ids)
BY StopBrings, StartBrings DEF Update

LEMMA TailItems ==
    ASSUME NEW s \in Seq(Work), s # <<>>
    PROVE  /\ Tail(s) \in Seq(Work) /\ Head(s) \in Work
           /\ Head(s) = s[1] /\ 1 \in 1..Len(s)
           /\ \A i \in 1..Len(Tail(s)) : i + 1 \in 1..Len(s) /\ i + 1 > 1 /\ Tail(s)[i] = s[i + 1]
           /\ \A i \in 1..Len(s) : i # 1 => i - 1 \in 1..Len(Tail(s)) /\ Tail(s)[i - 1] = s[i]
OBVIOUS

LEMMA TailHas ==
    ASSUME NEW s \in Seq(Work), s # <<>>
    PROVE  /\ \A op : Has(s, op) <=> Head(s).op = op \/ Has(Tail(s), op)
           /\ \A t : Enabling(s, t) <=> \/ Head(s).op = "enable" /\ Head(s).id = t
                                        \/ Enabling(Tail(s), t)
           /\ Ordered(s) => /\ Ordered(Tail(s))
                            /\ \A op : Has(Tail(s), op) => op \in Follow(Head(s).op)
<1> DEFINE h == Head(s)
           r == Tail(s)
<1>1. /\ h = s[1] /\ 1 \in 1..Len(s)
      /\ \A i \in 1..Len(r) : i \in Nat /\ i + 1 \in 1..Len(s) /\ i + 1 > 1 /\ r[i] = s[i + 1]
      /\ \A i \in 1..Len(s) : i # 1 => i - 1 \in 1..Len(r) /\ r[i - 1] = s[i]
  BY TailItems
<1> HIDE DEF h, r
<1>2. ASSUME NEW op PROVE Has(s, op) <=> h.op = op \/ Has(r, op)
  <2>1. Has(s, op) => h.op = op \/ Has(r, op)
    BY <1>1 DEF Has
  <2>2. h.op = op \/ Has(r, op) => Has(s, op)
    BY <1>1 DEF Has
  <2> QED
    BY <2>1, <2>2
<1>3. ASSUME NEW t PROVE Enabling(s, t) <=> (h.op = "enable" /\ h.id = t) \/ Enabling(r, t)
  <2>1. Enabling(s, t) => (h.op = "enable" /\ h.id = t) \/ Enabling(r, t)
    BY <1>1 DEF Enabling
  <2>2. (h.op = "enable" /\ h.id = t) \/ Enabling(r, t) => Enabling(s, t)
    BY <1>1 DEF Enabling
  <2> QED
    BY <2>1, <2>2
<1>4. ASSUME Ordered(s) PROVE Ordered(r) /\ \A op : Has(r, op) => op \in Follow(h.op)
  <2>1. ASSUME NEW i \in 1..Len(r), NEW j \in 1..Len(r), i < j PROVE r[j].op \in Follow(r[i].op)
    <3>1. i + 1 \in 1..Len(s) /\ j + 1 \in 1..Len(s) /\ i + 1 < j + 1
          /\ r[i] = s[i + 1] /\ r[j] = s[j + 1]
      BY <1>1, <2>1
    <3> QED
      BY <1>4, <3>1 DEF Ordered
  <2>2. \A i \in 1..Len(r) : r[i].op \in Follow(h.op)
    BY <1>1, <1>4 DEF Ordered
  <2> QED
    BY <2>1, <2>2 DEF Ordered, Has
<1> QED
  BY <1>2, <1>3, <1>4 DEF h, r

----------------------------------------------------------------------------
(* Types. *)

LEMMA GraphInit == Init => GraphInv
<1> SUFFICES ASSUME Init PROVE GraphInv
  OBVIOUS
<1>1. TypeOK
  <2>1. Nothing \in Pictures
    BY DEF Nothing, Pictures
  <2>2. plotted \in [Traces -> Pictures] /\ display \in Pictures
    BY <2>1 DEF Init
  <2>3. todo \in Seq(Work) /\ queue \in Seq(Events) /\ tail \in Seq(Events) /\ acts \in 0..MaxActs
    BY BoundsAssumption DEF Init
  <2> QED
    BY <2>2, <2>3 DEF Init, TypeOK
<1>2. \A op, t : ~Has(todo, op) /\ ~Enabling(todo, t)
  BY DEF Init, Has, Enabling
<1>3. ListInv /\ PushInv /\ EnableInv
  BY <1>2 DEF Init, ListInv, PushInv, EnableInv, Ordered, Shown
<1> QED
  BY <1>1, <1>3 DEF GraphInv

\* Every click leaves a list for the traces that the window then shows.
LEMMA ClickBrings ==
    ASSUME TypeOK,
           \/ \E t \in Traces : ToggleGraph(t) \/ StatsOn(t)
           \/ StatsOff \/ IntervalChanged
    PROVE  /\ Brings(todo', Shown') /\ Shown' \in SUBSET Traces
           /\ UNCHANGED <<panel, queue, unsure, hub, device, link, failed, late>>
           /\ graph' \subseteq Traces /\ stats' \in Traces \cup {NoTrace}
           /\ lastFreqs' = lastFreqs /\ display' \in {display, Nothing}
           /\ acts < MaxActs /\ acts' = acts + 1
<1>1. ASSUME NEW t \in Traces, ToggleGraph(t)
      PROVE  Brings(todo', Shown') /\ Shown' \in SUBSET Traces /\ graph' \subseteq Traces
  <2> DEFINE boxes == IF t \in graph THEN graph \ {t} ELSE graph \cup {t}
             ids == boxes \cup ({stats} \ {NoTrace})
  <2>1. boxes \subseteq Traces /\ ids \in SUBSET Traces
    BY DEF TypeOK
  <2>2. graph' = boxes /\ Shown' = ids /\ todo' = Manage(t, boxes, stats) \o Update(ids)
    BY <1>1 DEF ToggleGraph, Shown
  <2> HIDE DEF boxes
  <2>3. Aside(Manage(t, boxes, stats), ids)
    BY NoneAssumption, ManageAside
  <2>4. Brings(Manage(t, boxes, stats) \o Update(ids), ids)
    BY <2>1, <2>3, UpdateBrings, AsideBrings
  <2> QED
    BY <2>1, <2>2, <2>4
<1>2. ASSUME NEW t \in Traces, StatsOn(t) PROVE Brings(todo', Shown') /\ Shown' \in SUBSET Traces
  <2> DEFINE ids == graph \cup {t}
             a == IF stats = NoTrace THEN <<>> ELSE Manage(stats, graph, stats)
             b == Manage(t, graph, t)
  <2>1. ids \in SUBSET Traces /\ t # NoTrace
    BY NoneAssumption DEF TypeOK
  <2>2. stats' = t /\ Shown' = ids /\ todo' = a \o b \o Update(ids)
    BY <1>2, <2>1 DEF StatsOn, Shown
  <2>3. Aside(a, ids)
    <3>1. Aside(<<>>, ids)
      BY DEF Aside
    <3>2. ASSUME stats # NoTrace PROVE Aside(Manage(stats, graph, stats), ids)
      BY <3>2, ManageAside DEF TypeOK
    <3> QED
      BY <3>1, <3>2
  <2>4. Aside(b, ids)
    BY ManageAside
  <2> HIDE DEF a, b
  <2>5. Brings(a \o b \o Update(ids), ids)
    BY <2>1, <2>3, <2>4, AsideConcat, UpdateBrings, AsideBrings
  <2> QED
    BY <2>1, <2>2, <2>5
<1>3. ASSUME StatsOff PROVE Brings(todo', Shown') /\ Shown' \in SUBSET Traces
  <2>1. graph \in SUBSET Traces /\ stats \in Traces
    BY <1>3 DEF StatsOff, TypeOK
  <2>2. Shown' = graph /\ todo' = Update(graph) \o Manage(stats, graph, NoTrace)
    BY <1>3 DEF StatsOff, Shown
  <2>3. Aside(Manage(stats, graph, NoTrace), graph)
    BY <2>1, ManageAside
  <2>4. Brings(Update(graph) \o Manage(stats, graph, NoTrace), graph)
    BY <2>1, <2>3, UpdateBrings, AsideBrings
  <2> QED
    BY <2>1, <2>2, <2>4
<1>4. ASSUME IntervalChanged PROVE Brings(todo', Shown') /\ Shown' \in SUBSET Traces
  <2>1. Shown \in SUBSET Traces
    BY DEF TypeOK, Shown
  <2>2. Shown' = Shown /\ todo' = Update(Shown)
    BY <1>4 DEF IntervalChanged, window, Shown
  <2> QED
    BY <2>1, <2>2, UpdateBrings
<1> USE DEF ToggleGraph, StatsOn, StatsOff, IntervalChanged, Click, Act, window, TypeOK
<1>5. Brings(todo', Shown') /\ Shown' \in SUBSET Traces
  BY <1>1, <1>2, <1>3, <1>4, Zenon
<1>6. UNCHANGED <<panel, queue, unsure, hub, device, link, failed, late>>
  OBVIOUS
<1>7. graph' \subseteq Traces
  BY <1>1
<1>8. stats' \in Traces \cup {NoTrace} /\ lastFreqs' = lastFreqs /\ display' \in {display, Nothing}
  OBVIOUS
<1>9. acts < MaxActs /\ acts' = acts + 1
  OBVIOUS
<1> QED
  BY <1>5, <1>6, <1>7, <1>8, <1>9

\* An event that is handed on, or dropped.
LEMMA DeliverType ==
    ASSUME TypeOK, NEW e \in Events, Deliver(e)
    PROVE  queue' \in Seq(Events)
BY DEF TypeOK, Deliver

LEMMA FaultType ==
    ASSUME TypeOK, Fault \/ UNCHANGED <<acts, failed>>
    PROVE  acts' \in 0..MaxActs /\ failed' \in BOOLEAN
<1>1. acts \in 0..MaxActs /\ failed \in BOOLEAN /\ MaxActs \in Nat
  BY BoundsAssumption DEF TypeOK
<1>2. CASE Fault
  BY <1>1, <1>2 DEF Fault, Act
<1>3. CASE UNCHANGED <<acts, failed>>
  BY <1>1, <1>3
<1> QED
  BY <1>2, <1>3

LEMMA TypeStep == TypeOK /\ [Next]_vars => TypeOK'
<1> SUFFICES ASSUME TypeOK, [Next]_vars PROVE TypeOK'
  OBVIOUS
<1>0. /\ Nothing \in Pictures /\ [t \in Traces |-> Nothing] \in [Traces -> Pictures]
      /\ \A x, y \in Axes \cup {NoAxis} : [on |-> x, of |-> y] \in Pictures
      /\ \A x, y \in Axes \cup {NoAxis} : \A ids \in SUBSET Traces : \A o \in BOOLEAN :
             [freqs |-> x, values |-> y, ids |-> ids, old |-> o] \in Events
  BY DEF Nothing, Pictures, Events
<1>1. ASSUME \/ \E t \in Traces : ToggleGraph(t) \/ StatsOn(t)
             \/ StatsOff \/ IntervalChanged
      PROVE  TypeOK'
  <2>1. /\ Brings(todo', Shown')
        /\ UNCHANGED <<panel, queue, unsure, hub, device, link, failed, late>>
        /\ graph' \subseteq Traces /\ stats' \in Traces \cup {NoTrace}
        /\ lastFreqs' = lastFreqs /\ display' \in {display, Nothing}
        /\ acts < MaxActs /\ acts' = acts + 1
    BY <1>1, ClickBrings
  <2>2. todo' \in Seq(Work)
    BY <2>1 DEF Brings
  <2>3. acts' \in 0..MaxActs
    BY <2>1, BoundsAssumption DEF TypeOK
  <2> QED
    BY <1>0, <2>1, <2>2, <2>3 DEF TypeOK, panel, hub, device, link
<1>2. ASSUME EnableTrace \/ ShowTrace \/ HideTrace PROVE TypeOK'
  <2>1. todo # <<>> /\ todo' = Tail(todo) /\ Head(todo).op \in {"enable", "show", "hide"}
    BY <1>2 DEF EnableTrace, ShowTrace, HideTrace, Take, SetTrace
  <2>2. todo' \in Seq(Work) /\ Head(todo) \in Work
    BY <2>1, TailItems DEF TypeOK
  <2>3. Head(todo).id \in Traces
    BY <2>1, <2>2 DEF Work
  <2>4. enabled' \subseteq Traces /\ unsure' \subseteq Traces
    BY <1>2, <2>3 DEF EnableTrace, ShowTrace, HideTrace, SetTrace, TypeOK
  <2>5. acts' \in 0..MaxActs /\ failed' \in BOOLEAN
    <3>1. Fault \/ UNCHANGED <<acts, failed>>
      BY <1>2, Zenon DEF EnableTrace, ShowTrace, HideTrace, SetTrace
    <3> QED
      BY <3>1, FaultType
  <2>6. UNCHANGED <<window, panel, queue, hub, axis, link, late>>
    BY <1>2 DEF EnableTrace, ShowTrace, HideTrace, SetTrace
  <2> QED
    BY <2>2, <2>4, <2>5, <2>6 DEF TypeOK, window, panel, hub, link
<1>3. CASE Halt
  <2>1. todo' \in Seq(Work)
    BY <1>3, TailItems DEF Halt, Take, TypeOK
  <2> QED
    BY <1>3, <2>1 DEF Halt, TypeOK, window, hub, device, link, counts
<1>4. CASE Unsubscribe
  <2>1. todo' \in Seq(Work)
    BY <1>4, TailItems DEF Unsubscribe, Take, TypeOK
  <2>2. [freqs |-> IF axis = last THEN NoAxis ELSE axis,
         values |-> measured, ids |-> sub, old |-> FALSE] \in Events
    BY <1>0 DEF TypeOK
  <2>3. tail' \in Seq(Events)
    <3>1. \/ tail' = tail
          \/ tail' = <<[freqs |-> IF axis = last THEN NoAxis ELSE axis,
                        values |-> measured, ids |-> sub, old |-> FALSE]>>
      BY <1>4 DEF Unsubscribe, hub
    <3>2. tail \in Seq(Events) /\ \A e \in Events : <<e>> \in Seq(Events)
      BY DEF TypeOK
    <3> QED
      BY <2>2, <3>1, <3>2, Zenon
  <2>4. sub' \subseteq Traces /\ {fresh'} \subseteq BOOLEAN /\ {last', measured'} \subseteq Axes \cup {NoAxis}
    BY <1>4 DEF Unsubscribe, hub, TypeOK
  <2>5. curves' = {} /\ plotted' \in [Traces -> Pictures]
    BY <1>0, <1>4 DEF Unsubscribe
  <2>6. UNCHANGED <<window, running, freqs, queue, unsure, device, link, counts>>
    BY <1>4 DEF Unsubscribe
  <2> QED
    BY <2>1, <2>3, <2>4, <2>5, <2>6 DEF TypeOK, window, device, link, counts
<1>5. CASE Register
  <2>1. todo' \in Seq(Work)
    BY <1>5, TailItems DEF Register, Take, TypeOK
  <2>2. curves' \subseteq Traces /\ plotted' \in [Traces -> Pictures] /\ running' = TRUE
    BY <1>0, <1>5 DEF Register, Shown, TypeOK
  <2> QED
    BY <1>5, <2>1, <2>2 DEF Register, TypeOK, window, hub, device, link, counts
<1>6. CASE Subscribe
  <2>1. todo' \in Seq(Work)
    <3>1. todo # <<>> /\ (todo' = Tail(todo) \/ todo' = <<>>)
      BY <1>6 DEF Subscribe, Take
    <3> QED
      BY <3>1, TailItems, EmptySeq DEF TypeOK
  <2>2. sub' \subseteq Traces /\ fresh' \in BOOLEAN /\ last' = NoAxis /\ measured' = NoAxis
    BY <1>6 DEF Subscribe, Shown, TypeOK
  <2>3. acts' \in 0..MaxActs /\ failed' \in BOOLEAN
    <3>1. Fault \/ UNCHANGED <<acts, failed>>
      BY <1>6, Zenon DEF Subscribe
    <3> QED
      BY <3>1, FaultType
  <2> QED
    BY <1>6, <2>1, <2>2, <2>3 DEF Subscribe, TypeOK, window, panel, device, link
<1>7. CASE OnEvent
  <2>1. queue # <<>> /\ queue' = Tail(queue)
    BY <1>7 DEF OnEvent
  <2>2. queue' \in Seq(Events) /\ Head(queue) \in Events
    BY <2>1 DEF TypeOK
  <2> DEFINE e == Head(queue)
  <2>3. e.freqs \in Axes \cup {NoAxis} /\ e.values \in Axes \cup {NoAxis}
    BY <2>2 DEF Events
  <2> HIDE DEF e
  <2>4. Summarise(e) \/ UNCHANGED <<lastFreqs, display>>
    BY <1>7 DEF OnEvent, e
  <2>5. lastFreqs' \in Axes \cup {NoAxis} /\ display' \in Pictures
    BY <1>0, <2>3, <2>4 DEF Summarise, TypeOK
  <2>6. \/ UNCHANGED <<freqs, plotted>>
        \/ /\ freqs' = IF e.freqs = NoAxis THEN freqs ELSE e.freqs
           /\ plotted' = [t \in Traces |-> IF t \in curves \cap e.ids
                                           THEN [on |-> freqs', of |-> e.values] ELSE plotted[t]]
    BY <1>7 DEF OnEvent, e
  <2>7. freqs' \in Axes \cup {NoAxis}
    BY <2>3, <2>6 DEF TypeOK
  <2>8. plotted' \in [Traces -> Pictures]
    BY <1>0, <2>3, <2>6, <2>7 DEF TypeOK
  <2>9. UNCHANGED <<graph, stats, todo, running, curves, unsure, hub, device, link, counts>>
    BY <1>7 DEF OnEvent
  <2> QED
    BY <2>2, <2>5, <2>7, <2>8, <2>9 DEF TypeOK, hub, device, link, counts
<1>8. CASE FirstAxis
  <2>1. queue' \in Seq(Events)
    <3>1. [freqs |-> axis, values |-> NoAxis, ids |-> {}, old |-> FALSE] \in Events
      BY <1>0 DEF TypeOK
    <3> QED
      BY <1>8, <3>1, DeliverType DEF FirstAxis, TypeOK
  <2>2. last' \in Axes \cup {NoAxis} /\ fresh' = FALSE
    BY <1>8 DEF FirstAxis, TypeOK
  <2>3. UNCHANGED <<window, todo, panel, unsure, sub, measured, tail, device, link, counts>>
    BY <1>8 DEF FirstAxis
  <2> QED
    BY <2>1, <2>2, <2>3 DEF TypeOK, window, panel, device, link, counts
<1>9. CASE Fetch
  BY <1>9 DEF Fetch, TypeOK, window, panel, device, link, counts
<1>10. ASSUME NEW x \in {axis, NoAxis}, Push(x) PROVE TypeOK'
  <2>1. queue' \in Seq(Events)
    <3>1. [freqs |-> IF x = last THEN NoAxis ELSE x,
           values |-> measured, ids |-> sub, old |-> FALSE] \in Events
      BY <1>0 DEF TypeOK
    <3> QED
      BY <1>10, <3>1, DeliverType DEF Push
  <2>2. last' \in Axes \cup {NoAxis} /\ measured' = NoAxis
    BY <1>10 DEF Push, TypeOK
  <2>3. UNCHANGED <<window, todo, panel, unsure, sub, fresh, tail, device, link, counts>>
    BY <1>10 DEF Push
  <2> QED
    BY <2>1, <2>2, <2>3 DEF TypeOK, window, panel, device, link, counts
<1>11. CASE PushLate
  <2>1. Head(tail) \in Events
    BY <1>11 DEF PushLate, TypeOK
  <2>2. queue' \in Seq(Events)
    BY <1>11, <2>1, DeliverType DEF PushLate
  <2>3. tail' = <<>> /\ late' \in BOOLEAN
    BY <1>11 DEF PushLate, TypeOK
  <2>4. UNCHANGED <<window, todo, panel, unsure, sub, fresh, last, measured, device, link, acts, failed>>
    BY <1>11 DEF PushLate
  <2> QED
    BY <2>2, <2>3, <2>4 DEF TypeOK, window, panel, device, link
<1>12. ASSUME NEW x \in Axes, ChangeAxis(x) PROVE TypeOK'
  <2>1. acts' \in 0..MaxActs
    BY <1>12, BoundsAssumption DEF ChangeAxis, Act, TypeOK
  <2> QED
    BY <1>12, <2>1 DEF ChangeAxis, TypeOK, window, panel, hub, link
<1>13. CASE Disconnected
  <2>1. acts' \in 0..MaxActs /\ failed' \in BOOLEAN
    BY <1>13, FaultType DEF Disconnected
  <2>2. sub' = {} /\ fresh' = FALSE /\ last' = NoAxis /\ measured' = NoAxis /\ tail' = <<>>
        /\ alive' = FALSE
    BY <1>13 DEF Disconnected, HubForgets
  <2>3. UNCHANGED <<window, todo, panel, queue, unsure, device, attached, late>>
    BY <1>13 DEF Disconnected
  <2>4. {running, fresh', alive', attached, failed', late} \subseteq BOOLEAN
    BY <2>1, <2>2 DEF TypeOK
  <2>5. tail' \in Seq(Events)
    BY <2>2
  <2> QED
    BY <2>1, <2>2, <2>3, <2>4, <2>5 DEF TypeOK, window, panel, device
<1>14. CASE ConnectFails
  <2>1. acts' \in 0..MaxActs
    BY <1>14, BoundsAssumption DEF ConnectFails, Act, TypeOK
  <2> QED
    BY <1>14, <2>1 DEF ConnectFails, TypeOK, window, panel, hub, device
<1>15. CASE Connect
  <2>1. acts' \in 0..MaxActs
    BY <1>15, BoundsAssumption DEF Connect, Act, TypeOK
  <2>2. queue' \in Seq(Events)
    <3>1. \A e \in Events : [e EXCEPT !.old = TRUE] \in Events
      BY DEF Events
    <3>2. DOMAIN queue = 1..Len(queue) /\ Len(queue) \in Nat /\ \A i \in DOMAIN queue : queue[i] \in Events
      BY DEF TypeOK
    <3>3. \A i \in 1..Len(queue) : [queue[i] EXCEPT !.old = TRUE] \in Events
      BY <3>1, <3>2
    <3>4. [i \in 1..Len(queue) |-> [queue[i] EXCEPT !.old = TRUE]] \in Seq(Events)
      BY <3>2, <3>3
    <3> QED
      BY <1>15, <3>2, <3>4 DEF Connect
  <2>3. plotted' \in [Traces -> Pictures]
    BY <1>0, <1>15 DEF Connect
  <2>4. {attached', alive', running', fresh'} \subseteq BOOLEAN /\ sub' = {} /\ curves' = {} /\ tail' = <<>>
        /\ freqs' = NoAxis /\ last' = NoAxis /\ measured' = NoAxis
    BY <1>15 DEF Connect, HubForgets, TypeOK
  <2>5. UNCHANGED <<window, todo, unsure, device, failed, late>>
    BY <1>15 DEF Connect
  <2> QED
    BY <2>1, <2>2, <2>3, <2>4, <2>5 DEF TypeOK, window, device
<1>16. CASE UNCHANGED vars
  BY <1>16 DEF vars, TypeOK, window, panel, hub, device, link, counts
<1> QED
  BY <1>1, <1>2, <1>3, <1>4, <1>5, <1>6, <1>7, <1>8, <1>9, <1>10, <1>11, <1>12, <1>13, <1>14, <1>15,
     <1>16, Zenon DEF Next, Step

----------------------------------------------------------------------------
(* What the hub pushes and the device shows. *)

Promises == ListInv /\ PushInv /\ EnableInv

\* A handler begins.
LEMMA BeginKeeps ==
    ASSUME Brings(todo', Shown')
    PROVE  Promises'
<1>1. ListInv'
  BY DEF Brings, ListInv
<1>2. PushInv'
  BY DEF Brings, PushInv
<1>3. EnableInv'
  BY DEF Brings, EnableInv
<1> QED
  BY <1>1, <1>2, <1>3 DEF Promises

\* A step that leaves the handler, the subscription and the traces alone.
LEMMA OtherKeeps ==
    ASSUME Promises, UNCHANGED <<todo, graph, stats, running, sub, enabled, unsure>>,
           alive' => alive, failed => failed'
    PROVE  Promises'
<1>1. Shown' = Shown
  BY DEF Shown
<1>2. ListInv'
  BY <1>1 DEF Promises, ListInv
<1>3. PushInv'
  BY <1>1 DEF Promises, PushInv
<1>4. EnableInv'
  BY <1>1 DEF Promises, EnableInv
<1> QED
  BY <1>2, <1>3, <1>4 DEF Promises

\* What is left of the list when its head is done.
LEMMA HeadDone ==
    ASSUME TypeOK, Promises, todo # <<>>, todo' = Tail(todo), UNCHANGED <<graph, stats>>
    PROVE  /\ Shown' = Shown
           /\ \A op : Has(todo, op) <=> Head(todo).op = op \/ Has(todo', op)
           /\ \A t : Enabling(todo, t) <=> \/ Head(todo).op = "enable" /\ Head(todo).id = t
                                           \/ Enabling(todo', t)
           /\ Ordered(todo')
           /\ \A op : Has(todo', op) => op \in Follow(Head(todo).op)
           /\ \A i \in 1..Len(todo') : todo'[i].op = "hide" => todo'[i].id \notin Shown
           /\ Head(todo).op = "hide" => Head(todo).id \notin Shown
<1>1. todo \in Seq(Work) /\ Ordered(todo)
  BY DEF TypeOK, Promises, ListInv
<1>2. Shown' = Shown
  BY DEF Shown
<1>3. /\ \A op : Has(todo, op) <=> Head(todo).op = op \/ Has(todo', op)
      /\ \A t : Enabling(todo, t) <=> \/ Head(todo).op = "enable" /\ Head(todo).id = t
                                      \/ Enabling(todo', t)
      /\ Ordered(todo')
      /\ \A op : Has(todo', op) => op \in Follow(Head(todo).op)
  BY <1>1, TailHas
<1>4. \A i \in 1..Len(todo) : todo[i].op = "hide" => todo[i].id \notin Shown
  BY DEF Promises, EnableInv
<1>5. /\ \A i \in 1..Len(todo') : todo'[i].op = "hide" => todo'[i].id \notin Shown
      /\ Head(todo).op = "hide" => Head(todo).id \notin Shown
  BY <1>1, <1>4, TailItems
<1> QED
  BY <1>2, <1>3, <1>5

LEMMA SetKeeps ==
    ASSUME TypeOK, Promises, EnableTrace \/ ShowTrace \/ HideTrace
    PROVE  Promises'
<1> DEFINE h == Head(todo)
<1>1. /\ todo # <<>> /\ todo' = Tail(todo) /\ h.op \in {"enable", "show", "hide"}
      /\ UNCHANGED <<graph, stats, running, sub, alive>>
  BY DEF EnableTrace, ShowTrace, HideTrace, Take, SetTrace, window, panel, hub, link
<1>2. failed => failed'
  BY DEF EnableTrace, ShowTrace, HideTrace, SetTrace, Fault
<1>3. /\ \A t : t \in enabled \cup unsure /\ (h.op = "hide" => t # h.id) => t \in enabled' \cup unsure'
      /\ h.op = "enable" => h.id \in enabled' \cup unsure'
  BY DEF EnableTrace, ShowTrace, HideTrace, Take, SetTrace
<1> HIDE DEF h
<1>4. /\ Shown' = Shown
      /\ \A op : Has(todo, op) <=> h.op = op \/ Has(todo', op)
      /\ \A t : Enabling(todo, t) <=> (h.op = "enable" /\ h.id = t) \/ Enabling(todo', t)
      /\ Ordered(todo')
      /\ \A i \in 1..Len(todo') : todo'[i].op = "hide" => todo'[i].id \notin Shown
      /\ h.op = "hide" => h.id \notin Shown
  BY <1>1, HeadDone DEF h
<1>5. \A op \in {"halt", "unsubscribe", "register", "subscribe"} : Has(todo', op) <=> Has(todo, op)
  BY <1>1, <1>4
<1>6. ListInv'
  BY <1>1, <1>4, <1>5 DEF Promises, ListInv
<1>7. PushInv'
  BY <1>1, <1>2, <1>4, <1>5 DEF Promises, PushInv
<1>8. EnableInv'
  <2>1. \A t \in Shown : t \in enabled \cup unsure => t \in enabled' \cup unsure'
    BY <1>3, <1>4
  <2>2. \A t \in Shown : Enabling(todo, t) => t \in enabled' \cup unsure' \/ Enabling(todo', t)
    BY <1>3, <1>4
  <2> QED
    BY <1>1, <1>4, <1>5, <2>1, <2>2 DEF Promises, EnableInv
<1> QED
  BY <1>6, <1>7, <1>8 DEF Promises

LEMMA HaltKeeps == ASSUME TypeOK, Promises, Halt PROVE Promises'
<1>1. /\ todo # <<>> /\ todo' = Tail(todo) /\ Head(todo).op = "halt" /\ running' = FALSE
      /\ UNCHANGED <<graph, stats, sub, alive, failed, enabled, unsure>>
  BY DEF Halt, Take, window, hub, device, link, counts
<1>2. /\ Shown' = Shown /\ Ordered(todo')
      /\ \A op : Has(todo, op) <=> op = "halt" \/ Has(todo', op)
      /\ \A t : Enabling(todo, t) <=> Enabling(todo', t)
      /\ \A i \in 1..Len(todo') : todo'[i].op = "hide" => todo'[i].id \notin Shown
  BY <1>1, HeadDone
<1>3. "halt" \notin Follow("halt")
  BY DEF Follow
<1>4. ~Has(todo', "halt") /\ Has(todo', "unsubscribe")
  BY <1>1, <1>2, <1>3, HeadDone DEF Promises, ListInv
<1>5. ListInv'
  BY <1>1, <1>2, <1>4 DEF Promises, ListInv
<1>6. PushInv'
  BY <1>4 DEF PushInv
<1>7. EnableInv'
  BY <1>1, <1>2, <1>4 DEF Promises, EnableInv
<1> QED
  BY <1>5, <1>6, <1>7 DEF Promises

LEMMA UnsubscribeKeeps == ASSUME TypeOK, Promises, Unsubscribe PROVE Promises'
<1>1. /\ todo # <<>> /\ todo' = Tail(todo) /\ Head(todo).op = "unsubscribe"
      /\ alive => sub' = {}
      /\ UNCHANGED <<graph, stats, running, alive, failed, enabled, unsure>>
  BY DEF Unsubscribe, Take, window, device, link, counts
<1>2. /\ Shown' = Shown /\ Ordered(todo')
      /\ \A op : Has(todo, op) <=> op = "unsubscribe" \/ Has(todo', op)
      /\ \A t : Enabling(todo, t) <=> Enabling(todo', t)
      /\ \A i \in 1..Len(todo') : todo'[i].op = "hide" => todo'[i].id \notin Shown
  BY <1>1, HeadDone
<1>3. "unsubscribe" \notin Follow("unsubscribe") /\ "halt" \notin Follow("unsubscribe")
  BY DEF Follow
<1>4. ~Has(todo', "halt") /\ ~Has(todo', "unsubscribe")
  BY <1>1, <1>3, HeadDone
<1>5. /\ Has(todo', "subscribe") => Has(todo', "register")
      /\ ~Has(todo', "subscribe") => ~running
  BY <1>2, <1>4 DEF Promises, ListInv
<1>6. ListInv'
  BY <1>1, <1>2, <1>4, <1>5 DEF Promises, ListInv
<1>7. PushInv'
  BY <1>1, <1>5 DEF PushInv
<1>8. EnableInv'
  BY <1>1, <1>2, <1>5 DEF Promises, EnableInv
<1> QED
  BY <1>6, <1>7, <1>8 DEF Promises

LEMMA RegisterKeeps == ASSUME TypeOK, Promises, Register PROVE Promises'
<1>1. /\ todo # <<>> /\ todo' = Tail(todo) /\ Head(todo).op = "register" /\ running' = TRUE
      /\ UNCHANGED <<graph, stats, sub, alive, failed, enabled, unsure>>
  BY DEF Register, Take, window, hub, device, link, counts
<1>2. /\ Shown' = Shown /\ Ordered(todo')
      /\ \A op : Has(todo, op) <=> op = "register" \/ Has(todo', op)
      /\ \A t : Enabling(todo, t) <=> Enabling(todo', t)
      /\ \A i \in 1..Len(todo') : todo'[i].op = "hide" => todo'[i].id \notin Shown
  BY <1>1, HeadDone
<1>3. {"unsubscribe", "halt", "register"} \cap Follow("register") = {}
  BY DEF Follow
<1>4. ~Has(todo', "halt") /\ ~Has(todo', "unsubscribe") /\ ~Has(todo', "register")
  BY <1>1, <1>3, HeadDone
<1>5. Has(todo', "subscribe")
  BY <1>2 DEF Promises, ListInv
<1>6. ListInv'
  BY <1>1, <1>2, <1>4, <1>5 DEF Promises, ListInv
<1>7. PushInv'
  BY <1>5 DEF PushInv
<1>8. EnableInv'
  BY <1>1, <1>2, <1>5 DEF Promises, EnableInv
<1> QED
  BY <1>6, <1>7, <1>8 DEF Promises

LEMMA SubscribeKeeps == ASSUME TypeOK, Promises, Subscribe PROVE Promises'
<1>1. /\ todo # <<>> /\ Head(todo).op = "subscribe"
      /\ \/ todo' = Tail(todo) /\ sub' = Shown
         \/ todo' = <<>> /\ sub' = {} /\ (alive => failed')
      /\ UNCHANGED <<graph, stats, running, alive, enabled, unsure>>
  BY DEF Subscribe, Take, Fault, window, panel, device, link
<1>2. todo \in Seq(Work) /\ Ordered(todo)
  BY DEF TypeOK, Promises, ListInv
<1>3. {"enable", "unsubscribe", "halt", "register", "subscribe"} \cap Follow("subscribe") = {}
  BY DEF Follow
<1>4. \A op \in {"enable", "unsubscribe", "halt", "register", "subscribe"} : ~Has(Tail(todo), op)
  BY <1>1, <1>2, <1>3, TailHas
<1>5. /\ Has(todo, "subscribe")
      /\ \A op \in {"enable", "unsubscribe", "halt", "register"} : ~Has(todo, op)
  BY <1>1, <1>2, <1>4, TailHas
<1>6. running /\ Shown # {} /\ Shown' = Shown
  BY <1>1, <1>5 DEF Promises, ListInv, Shown
<1>7. Shown \subseteq enabled \cup unsure
  <2>1. \A t : ~Enabling(todo, t)
    BY <1>5 DEF Enabling, Has
  <2> QED
    BY <1>5, <2>1 DEF Promises, EnableInv
<1>8. /\ Ordered(todo')
      /\ \A op \in {"unsubscribe", "halt", "register", "subscribe"} : ~Has(todo', op)
      /\ \A i \in 1..Len(todo') : todo'[i].op = "hide" => todo'[i].id \notin Shown
  <2>1. CASE todo' = Tail(todo)
    BY <1>1, <1>4, <2>1, HeadDone
  <2>2. CASE todo' = <<>>
    BY <2>2 DEF Ordered, Has
  <2> QED
    BY <1>1, <2>1, <2>2
<1>9. ListInv'
  BY <1>8 DEF ListInv
<1>10. PushInv'
  BY <1>1, <1>6 DEF PushInv
<1>11. EnableInv'
  BY <1>1, <1>6, <1>7, <1>8 DEF EnableInv
<1> QED
  BY <1>9, <1>10, <1>11 DEF Promises

LEMMA ConnectKeeps == ASSUME Promises, Connect PROVE Promises'
<1>1. todo = <<>> /\ todo' = <<>> /\ running' = FALSE /\ sub' = {}
  BY DEF Connect, HubForgets
<1>2. Len(todo') = 0 /\ \A op : ~Has(todo', op)
  BY <1>1 DEF Has
<1>3. ListInv' /\ PushInv' /\ EnableInv'
  BY <1>1, <1>2 DEF ListInv, PushInv, EnableInv, Ordered
<1> QED
  BY <1>3 DEF Promises

LEMMA DisconnectedKeeps == ASSUME Promises, Disconnected PROVE Promises'
<1>1. alive' = FALSE /\ UNCHANGED <<todo, graph, stats, running, enabled, unsure>>
  BY DEF Disconnected, window, panel, device
<1>2. Shown' = Shown
  BY <1>1 DEF Shown
<1>3. ListInv' /\ EnableInv'
  BY <1>1, <1>2 DEF Promises, ListInv, EnableInv
<1>4. PushInv'
  BY <1>1 DEF PushInv
<1> QED
  BY <1>3, <1>4 DEF Promises

LEMMA GraphStep == GraphInv /\ [Next]_vars => GraphInv'
<1> SUFFICES ASSUME GraphInv, [Next]_vars PROVE Promises'
  BY TypeStep DEF GraphInv, Promises
<1>0. TypeOK /\ Promises
  BY DEF GraphInv, Promises
<1>1. ASSUME \/ \E t \in Traces : ToggleGraph(t) \/ StatsOn(t)
             \/ StatsOff \/ IntervalChanged
      PROVE  Promises'
  BY <1>0, <1>1, ClickBrings, BeginKeeps
<1>2. CASE Step
  BY <1>0, <1>2, SetKeeps, HaltKeeps, UnsubscribeKeeps, RegisterKeeps, SubscribeKeeps DEF Step
<1>3. CASE OnEvent
  <2>1. UNCHANGED <<graph, stats, todo, running, unsure, hub, device, link, counts>>
    BY <1>3 DEF OnEvent
  <2> QED
    BY <1>0, <2>1, OtherKeeps DEF hub, device, link, counts
<1>4. ASSUME FirstAxis \/ Fetch \/ PushLate \/ \E x \in {axis, NoAxis} : Push(x) PROVE Promises'
  <2>1. UNCHANGED <<window, todo, panel, unsure, sub, device, link, failed>>
    BY <1>4 DEF FirstAxis, Fetch, PushLate, Push, counts
  <2> QED
    BY <1>0, <2>1, OtherKeeps DEF window, panel, device, link
<1>5. ASSUME NEW x \in Axes, ChangeAxis(x) PROVE Promises'
  BY <1>0, <1>5, OtherKeeps DEF ChangeAxis, window, panel, hub, link
<1>6. CASE ConnectFails
  BY <1>0, <1>6, OtherKeeps DEF ConnectFails, window, panel, hub, device
<1>7. CASE Connect \/ Disconnected
  BY <1>0, <1>7, ConnectKeeps, DisconnectedKeeps
<1>8. CASE UNCHANGED vars
  BY <1>0, <1>8, OtherKeeps DEF vars, window, panel, hub, device, link, counts
<1> QED
  BY <1>1, <1>2, <1>3, <1>4, <1>5, <1>6, <1>7, <1>8, Zenon DEF Next

LEMMA GraphHolds == Spec => []GraphInv
BY GraphInit, GraphStep, PTL DEF Spec

LEMMA ListDone == todo = <<>> => \A op : ~Has(todo, op)
BY DEF Has

\* The variables of the window, the panel and the hub keep their types, for any
\* number of traces and axes.
THEOREM GraphTypeCorrect == Spec => []TypeOK
BY GraphHolds, PTL DEF GraphInv

\* Through every order of clicks, failures and reconnections the hub pushes
\* what the window shows (live_graph.py start and stop, main_window.py
\* _update_subscription).
THEOREM PushesWhatIsShown == Spec => []PushesShown
<1>1. GraphInv => PushesShown
  BY ListDone DEF GraphInv, PushInv, PushesShown
<1> QED
  BY <1>1, GraphHolds, PTL

\* The device shows what the panel has subscribed to, whatever
\* _trace_manage_enabled has disabled before.
THEOREM ShownIsEnabled == Spec => []ShownEnabled
<1>1. GraphInv => ShownEnabled
  BY ListDone DEF GraphInv, EnableInv, ShownEnabled
<1> QED
  BY <1>1, GraphHolds, PTL
=============================================================================
