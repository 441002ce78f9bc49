---------------------------- MODULE TypingProofs ----------------------------
(***************************************************************************)
(* Every variable of OrderSystem has its type and every reference that is  *)
(* followed leads somewhere, for all values of the constants.  The lemmas  *)
(* come first: what each statement on the orders table and on the queue    *)
(* preserves; then one lemma per component, one step per action.           *)
(***************************************************************************)
EXTENDS OrderInvariants, FiniteSetTheorems, WellFoundedInduction, TLAPS

(***************************************************************************)
(* What the sum over the lines of an order computes, for every finite set  *)
(* of lines, and what the two roundings do to it.  The sum is a recursive  *)
(* function: that it exists, and what it is, is shown by looking at the    *)
(* least number of lines for which it would not be so.                     *)
(***************************************************************************)
LEMMA LeastOf ==
    ASSUME NEW T, T \subseteq Nat, T # {}
    PROVE  \E x \in T : \A y \in T : x <= y
<1> DEFINE R == OpToRel(<, Nat)
<1>1. IsWellFoundedOn(R, Nat) BY NatLessThanWellFounded
<1>2. \A x, y \in Nat : x < y => <<x, y>> \in R BY DEF OpToRel
<1> HIDE DEF R
<1>3. PICK x \in T : \A y \in T : ~ (<<y, x>> \in R) BY <1>1, WFMin
<1>4. \A y \in T : ~ (y < x) BY <1>2, <1>3
<1>5. QED BY <1>4, SMT

(* The line the sum takes first, and the sum from there. *)
FirstLine(s) == CHOOSE x \in s : TRUE
OtherLines(s) == s \ {FirstLine(s)}
SumStep(g, S) ==
    [s \in SUBSET S |-> IF s = {} THEN 0 ELSE LinePrice(FirstLine(s)) + g[OtherLines(s)]]
Running(S) == CHOOSE g : g = SumStep(g, S)

LEMMA SumIsRunning == ASSUME NEW S PROVE SumOfLines(S) = Running(S)[S]
BY DEF SumOfLines, MapThenSumSet, MapThenFoldSet, Running, SumStep, FirstLine, OtherLines

LEMMA RestSmaller ==
    ASSUME NEW S, IsFiniteSet(S), S # {}
    PROVE  /\ FirstLine(S) \in S /\ OtherLines(S) \subseteq S
           /\ IsFiniteSet(OtherLines(S))
           /\ Cardinality(S) \in Nat /\ Cardinality(OtherLines(S)) \in Nat
           /\ Cardinality(OtherLines(S)) = Cardinality(S) - 1
<1>1. FirstLine(S) \in S BY DEF FirstLine
<1>2. QED BY <1>1, FS_RemoveElement, FS_CardinalityType DEF OtherLines

(* The sum over the subsets with n lines at most. *)
SumUpTo(g, S, n) ==
    \A s \in SUBSET S : Cardinality(s) <= n =>
        g[s] = IF s = {} THEN 0 ELSE LinePrice(FirstLine(s)) + g[OtherLines(s)]

Priced(S) == IsFiniteSet(S) /\ \A x \in S : LinePrice(x) \in Nat

LEMMA PricedSubset ==
    ASSUME NEW S, Priced(S), NEW s \in SUBSET S
    PROVE  Priced(s)
BY FS_Subset DEF Priced

(* One more step of the sum makes it right for one line more. *)
LEMMA OneLineMore ==
    ASSUME NEW S, Priced(S), NEW n \in Nat, NEW g \in [SUBSET S -> Nat],
           n > 0 => SumUpTo(g, S, n - 1)
    PROVE  SumStep(g, S) \in [SUBSET S -> Nat] /\ SumUpTo(SumStep(g, S), S, n)
<1> DEFINE h == SumStep(g, S)
<1>1. ASSUME NEW s \in SUBSET S, s # {}
      PROVE  /\ OtherLines(s) \in SUBSET S /\ LinePrice(FirstLine(s)) \in Nat
             /\ Cardinality(s) \in Nat /\ Cardinality(OtherLines(s)) = Cardinality(s) - 1
  BY <1>1, PricedSubset, RestSmaller DEF Priced
<1>2. \A s \in SUBSET S :
          h[s] = IF s = {} THEN 0 ELSE LinePrice(FirstLine(s)) + g[OtherLines(s)]
  BY DEF SumStep
<1>3. \A s \in SUBSET S : h[s] \in Nat
  <2>1. TAKE s \in SUBSET S
  <2>2. CASE s = {} BY <1>2, <2>2
  <2>3. CASE s # {}
    <3>1. g[OtherLines(s)] \in Nat /\ LinePrice(FirstLine(s)) \in Nat BY <1>1, <2>3
    <3>2. QED BY <1>2, <2>3, <3>1
  <2>4. QED BY <2>2, <2>3
<1>4. h \in [SUBSET S -> Nat] BY <1>3 DEF SumStep
<1>5. ASSUME NEW s \in SUBSET S, Cardinality(s) <= n, s # {}
      PROVE  g[OtherLines(s)] = h[OtherLines(s)]
  <2>1. /\ OtherLines(s) \in SUBSET S /\ Cardinality(s) \in Nat
        /\ Cardinality(OtherLines(s)) = Cardinality(s) - 1
    BY <1>1, <1>5
  <2>2. Cardinality(s) # 0 BY <1>5, PricedSubset, FS_EmptySet DEF Priced
  <2>3. n > 0 /\ Cardinality(OtherLines(s)) <= n - 1 BY <1>5, <2>1, <2>2
  <2>4. g[OtherLines(s)] = IF OtherLines(s) = {} THEN 0
                     ELSE LinePrice(FirstLine(OtherLines(s))) + g[OtherLines(OtherLines(s))]
    BY <2>1, <2>3 DEF SumUpTo
  <2>5. QED BY <1>2, <2>1, <2>4
<1>6. SumUpTo(h, S, n)
  <2> SUFFICES ASSUME NEW s \in SUBSET S, Cardinality(s) <= n
               PROVE  h[s] = IF s = {} THEN 0 ELSE LinePrice(FirstLine(s)) + h[OtherLines(s)]
    BY DEF SumUpTo
  <2>1. CASE s = {} BY <1>2, <2>1
  <2>2. CASE s # {} BY <1>2, <1>5, <2>2
  <2>3. QED BY <2>1, <2>2
<1>7. QED BY <1>4, <1>6

(* The recursive definition of the sum defines a function. *)
LEMMA RunningDefined ==
    ASSUME NEW S, Priced(S)
    PROVE  Running(S) = SumStep(Running(S), S)
<1> DEFINE Fails == {n \in Nat : ~ \E g \in [SUBSET S -> Nat] : SumUpTo(g, S, n)}
<1>1. Fails = {}
  <2> SUFFICES ASSUME Fails # {} PROVE FALSE OBVIOUS
  <2>1. PICK n \in Fails : \A k \in Fails : n <= k BY LeastOf
  <2>2. \E g \in [SUBSET S -> Nat] : n > 0 => SumUpTo(g, S, n - 1)
    <3>1. CASE n = 0
      <4> DEFINE z == [s \in SUBSET S |-> 0]
      <4>1. z \in [SUBSET S -> Nat] OBVIOUS
      <4> HIDE DEF z
      <4>2. QED BY <3>1, <4>1
    <3>2. CASE n > 0
      <4>1. n - 1 \in Nat /\ ~ (n <= n - 1) BY <3>2
      <4>2. n - 1 \notin Fails BY <2>1, <4>1
      <4>3. QED BY <4>1, <4>2
    <3>3. n \in Nat OBVIOUS
    <3>4. n = 0 \/ n > 0 BY <3>3
    <3>5. QED BY <3>1, <3>2, <3>4
  <2>3. PICK g \in [SUBSET S -> Nat] : n > 0 => SumUpTo(g, S, n - 1) BY <2>2
  <2>4. \E h \in [SUBSET S -> Nat] : SumUpTo(h, S, n) BY <2>3, OneLineMore
  <2>5. QED BY <2>4
<1>2. Cardinality(S) \in Nat BY FS_CardinalityType DEF Priced
<1>3. PICK g \in [SUBSET S -> Nat] : SumUpTo(g, S, Cardinality(S)) BY <1>1, <1>2
<1>4. \A s \in SUBSET S : Cardinality(s) <= Cardinality(S) BY FS_Subset DEF Priced
<1>5. g = SumStep(g, S) BY <1>3, <1>4 DEF SumUpTo, SumStep
<1>6. QED BY <1>5 DEF Running

LEMMA RunningIs ==
    ASSUME NEW S, Priced(S), NEW s \in SUBSET S
    PROVE  Running(S)[s] = IF s = {} THEN 0
                           ELSE LinePrice(FirstLine(s)) + Running(S)[OtherLines(s)]
BY RunningDefined DEF SumStep

(* What holds of the sum of s does not depend on the set S it is part of,  *)
(* and the sum is a number.                                                *)
LEMMA RunningAgrees ==
    ASSUME NEW S, Priced(S), NEW U \in SUBSET S
    PROVE  \A s \in SUBSET U : Running(S)[s] \in Nat /\ Running(S)[s] = Running(U)[s]
<1> DEFINE Good(s) == Running(S)[s] \in Nat /\ Running(S)[s] = Running(U)[s]
           Fails == {n \in Nat : \E s \in SUBSET U : Cardinality(s) = n /\ ~ Good(s)}
<1>1. Priced(U) BY PricedSubset
<1>2. Fails = {}
  <2> SUFFICES ASSUME Fails # {} PROVE FALSE OBVIOUS
  <2>1. PICK n \in Fails : \A k \in Fails : n <= k BY LeastOf
  <2>2. PICK s \in SUBSET U : Cardinality(s) = n /\ ~ Good(s) OBVIOUS
  <2>3. /\ Running(S)[s] = IF s = {} THEN 0 ELSE LinePrice(FirstLine(s)) + Running(S)[OtherLines(s)]
        /\ Running(U)[s] = IF s = {} THEN 0 ELSE LinePrice(FirstLine(s)) + Running(U)[OtherLines(s)]
    BY <1>1, RunningIs
  <2>4. s # {} BY <2>2, <2>3
  <2>5. /\ OtherLines(s) \in SUBSET U /\ LinePrice(FirstLine(s)) \in Nat
        /\ Cardinality(OtherLines(s)) \in Nat /\ ~ (n <= Cardinality(OtherLines(s)))
    BY <1>1, <2>2, <2>4, PricedSubset, RestSmaller DEF Priced
  <2>6. Good(OtherLines(s)) BY <2>1, <2>5
  <2>7. Good(s) BY <2>3, <2>4, <2>5, <2>6
  <2>8. QED BY <2>2, <2>7
<1>3. \A s \in SUBSET U : Cardinality(s) \in Nat
  BY <1>1, FS_Subset, FS_CardinalityType DEF Priced
<1>4. QED BY <1>2, <1>3

(* The sum of any finite set of priced lines is a number. *)
LEMMA SumTyped == ASSUME NEW S, Priced(S) PROVE SumOfLines(S) \in Nat
BY RunningAgrees, SumIsRunning

LEMMA SumOfNone == SumOfLines({}) = 0
<1>1. Priced({}) BY FS_EmptySet DEF Priced
<1>2. QED BY <1>1, RunningIs, SumIsRunning

LEMMA SumFirst ==
    ASSUME NEW S, Priced(S), S # {}
    PROVE  SumOfLines(S) = LinePrice(FirstLine(S)) + SumOfLines(OtherLines(S))
<1>1. OtherLines(S) \in SUBSET S BY DEF OtherLines
<1>2. Running(S)[S] = LinePrice(FirstLine(S)) + Running(S)[OtherLines(S)] BY RunningIs
<1>3. Running(S)[OtherLines(S)] = Running(OtherLines(S))[OtherLines(S)] BY <1>1, RunningAgrees
<1>4. QED BY <1>2, <1>3, SumIsRunning

(* Whichever line is taken out first: the price of that line, and the sum  *)
(* of the others.  This and SumOfNone are all there is to say of a sum.    *)
THEOREM SumOfLinesIsSum ==
    ASSUME NEW S, Priced(S), NEW x \in S
    PROVE  SumOfLines(S) = LinePrice(x) + SumOfLines(S \ {x})
<1> DEFINE Good(s) == \A y \in s : SumOfLines(s) = LinePrice(y) + SumOfLines(s \ {y})
           Fails == {n \in Nat : \E s \in SUBSET S : Cardinality(s) = n /\ ~ Good(s)}
<1>1. Fails = {}
  <2> SUFFICES ASSUME Fails # {} PROVE FALSE OBVIOUS
  <2>1. PICK n \in Fails : \A k \in Fails : n <= k BY LeastOf
  <2>2. PICK s \in SUBSET S : Cardinality(s) = n /\ ~ Good(s) OBVIOUS
  <2>3. PICK y \in s : SumOfLines(s) # LinePrice(y) + SumOfLines(s \ {y}) BY <2>2
  <2> DEFINE p == FirstLine(s)
             r == s \ {p, y}
  <2>4. Priced(s) BY PricedSubset
  <2>5. p \in s BY <2>3, <2>4, RestSmaller DEF Priced
  <2>6. SumOfLines(s) = LinePrice(p) + SumOfLines(s \ {p}) BY <2>3, <2>4, SumFirst DEF OtherLines
  <2>7. p # y BY <2>3, <2>6
  <2> HIDE DEF p
  <2>8. ASSUME NEW z \in s PROVE Good(s \ {z})
    <3>1. Cardinality(s \ {z}) = n - 1 /\ Cardinality(s \ {z}) \in Nat
      BY <2>2, <2>4, FS_RemoveElement, FS_CardinalityType DEF Priced
    <3>2. ~ (n <= n - 1) OBVIOUS
    <3>3. QED BY <2>1, <3>1, <3>2
  <2>9. SumOfLines(s \ {p}) = LinePrice(y) + SumOfLines((s \ {p}) \ {y})
    BY <2>5, <2>7, <2>8
  <2>10. SumOfLines(s \ {y}) = LinePrice(p) + SumOfLines((s \ {y}) \ {p})
    BY <2>5, <2>7, <2>8
  <2>11. (s \ {p}) \ {y} = r /\ (s \ {y}) \ {p} = r OBVIOUS
  <2>12. /\ LinePrice(p) \in Nat /\ LinePrice(y) \in Nat
         /\ SumOfLines(r) \in Nat
    <3>1. Priced(r) BY <2>4, PricedSubset
    <3>2. QED BY <2>4, <2>5, <3>1, SumTyped DEF Priced
  <2> HIDE DEF r
  <2>13. SumOfLines(s) = LinePrice(y) + SumOfLines(s \ {y})
    BY <2>6, <2>9, <2>10, <2>11, <2>12
  <2>14. QED BY <2>3, <2>13
<1>2. Cardinality(S) \in Nat BY FS_CardinalityType DEF Priced
<1>3. QED BY <1>1, <1>2

(***************************************************************************)
(* The roundings                                                           *)
(***************************************************************************)
LEMMA CentsNear ==
    ASSUME NEW S, Priced(S)
    PROVE  /\ Cents(S) \in Nat
           /\ 10 * Cents(S) - SumOfLines(S) \in -4 .. 5
<1>1. SumOfLines(S) \in Nat BY SumTyped
<1> DEFINE n == SumOfLines(S)
<1> HIDE DEF n
<1>2. n \in Nat BY <1>1 DEF n
<1>3. RoundDiv(n, 10) \in Nat /\ 10 * RoundDiv(n, 10) - n \in -4 .. 5
  BY <1>2, SMT DEF RoundDiv
<1>4. QED BY <1>3 DEF Cents, n

LEMMA DongNear ==
    ASSUME NEW cents \in Nat
    PROVE  /\ Dong(cents) \in Nat
           /\ 100 * Dong(cents) - cents \in -49 .. 50
BY SMT DEF Dong, RoundDiv

(***************************************************************************)
(* The tables and the references between them                              *)
(***************************************************************************)
OrdersTypeOK == orders \in [OrderIds -> Order \cup {NoOrder}]

(* Rows are never removed from the orders table. *)
OrdersStay == \A o \in OrderIds : Exists(o) => Exists(o)'

(* A message that was sent keeps its body. *)
MessagesStay ==
    \A m \in MsgIds : Sent(m) =>
        /\ Sent(m)'
        /\ queue'[m].type = queue[m].type
        /\ queue'[m].order = queue[m].order

(***************************************************************************)
(* The statements on the orders table.                                     *)
(***************************************************************************)

(* A row that exists is a row of type Order, and no other. *)
LEMMA ExistsIsOrder ==
    ASSUME OrdersTypeOK
    PROVE  \A o \in OrderIds : Exists(o) <=> orders[o] \in Order
BY DEF OrdersTypeOK, Exists, Order, NoOrder

(* Each UPDATE of a row that exists keeps the table's type and its rows. *)
LEMMA UpdateTyped ==
    ASSUME OrdersTypeOK, NEW o, IsOrder(o), NEW l \in LinkIds \cup {0},
           SetPaid(o) \/ SetConfirmed(o) \/ SetLink(o, l)
    PROVE  OrdersTypeOK' /\ OrdersStay
<1>1. o \in OrderIds /\ orders[o] \in Order
  BY ExistsIsOrder DEF IsOrder
<1>2. CASE SetPaid(o)
  BY <1>1, <1>2 DEF OrdersTypeOK, OrdersStay, Exists, SetPaid, Order
<1>3. CASE SetConfirmed(o)
  BY <1>1, <1>3 DEF OrdersTypeOK, OrdersStay, Exists, SetConfirmed, Order
<1>4. CASE SetLink(o, l)
  BY <1>1, <1>4 DEF OrdersTypeOK, OrdersStay, Exists, SetLink, Order
<1>5. QED BY <1>2, <1>3, <1>4

(* The INSERT keeps the table's type, keeps its rows and adds the order. *)
LEMMA CreateTyped ==
    ASSUME OrdersTypeOK, NEW o, NextOrder(o), NEW u \in Users, NEW n \in Nat,
           NEW lines \in SUBSET OrderLine, CreateOrder(o, u, n, lines)
    PROVE  OrdersTypeOK' /\ OrdersStay /\ IsOrder(o)'
BY DEF OrdersTypeOK, OrdersStay, Exists, NextOrder, CreateOrder, Order, IsOrder

(***************************************************************************)
(* The statements on the queue.                                            *)
(***************************************************************************)

(* A step with or without a failure keeps the count of failures in range. *)
LEMMA FaultTyped ==
    ASSUME FaultsTypeOK, NEW k, Fault(k) \/ NoFault
    PROVE  FaultsTypeOK'
BY FaultsAssumption DEF FaultsTypeOK, Fault, NoFault

(* Sending a message keeps those already sent, and adds nothing else. *)
LEMMA EnqueueTyped ==
    ASSUME QueueTypeOK, NEW m, NextMsg(m), NEW type \in Events \cup ForeignBodies,
           NEW o \in OrderIds \cup {0}, Enqueue(m, type, o)
    PROVE  /\ QueueTypeOK' /\ MessagesStay
           /\ \A k \in MsgIds : Sent(k)' =>
                 Sent(k) \/ (queue'[k].type = type /\ queue'[k].order = o)
<1>1. m \in MsgIds /\ ~ Sent(m) BY DEF NextMsg
<1>2. 0 \in 0 .. MaxReceive BY SqsAssumption
<1>3. QueueTypeOK'
  BY <1>1, <1>2 DEF QueueTypeOK, Enqueue, Message
<1>4. MessagesStay
  BY <1>1 DEF QueueTypeOK, Enqueue, MessagesStay, Sent
<1>5. \A k \in MsgIds : Sent(k)' =>
          Sent(k) \/ (queue'[k].type = type /\ queue'[k].order = o)
  BY <1>1 DEF QueueTypeOK, Enqueue, Sent
<1>6. QED BY <1>3, <1>4, <1>5

(* An unchanged queue stays. *)
LEMMA QueueUnchanged ==
    ASSUME UNCHANGED queue
    PROVE  MessagesStay /\ (QueueTypeOK => QueueTypeOK') /\ \A k : Sent(k)' <=> Sent(k)
BY DEF MessagesStay, QueueTypeOK, Sent

(* Publishing keeps the messages of others and sends only this event. *)
LEMMA PublishTyped ==
    ASSUME QueueTypeOK, FaultsTypeOK, NEW type \in Events, NEW o \in OrderIds,
           PublishOrderEvent(type, o)
    PROVE  /\ QueueTypeOK' /\ FaultsTypeOK' /\ MessagesStay
           /\ \A k \in MsgIds : Sent(k)' =>
                 Sent(k) \/ (queue'[k].type = type /\ queue'[k].order = o)
<1>1. FaultsTypeOK' BY FaultTyped DEF PublishOrderEvent
<1>2. CASE UNCHANGED queue BY <1>1, <1>2, QueueUnchanged
<1>3. CASE \E m \in MsgIds : NextMsg(m) /\ Enqueue(m, type, o)
  BY <1>1, <1>3, EnqueueTyped
<1>4. QED BY <1>2, <1>3 DEF PublishOrderEvent

(***************************************************************************)
(* What a component refers to stays good while another component moves.    *)
(***************************************************************************)
LEMMA LinksKept ==
    ASSUME LinksRefer, OrdersStay, UNCHANGED links
    PROVE  LinksRefer'
BY DEF LinksRefer, OrdersStay, IsOrder

LEMMA PayReqsKept ==
    ASSUME PayReqsRefer, OrdersStay, UNCHANGED pay
    PROVE  PayReqsRefer'
BY DEF PayReqsRefer, OrdersStay, IsOrder

LEMMA RequestsKept ==
    ASSUME RequestsRefer, OrdersStay, UNCHANGED req
    PROVE  RequestsRefer'
BY DEF RequestsRefer, OrdersStay, IsOrder

LEMMA LinesKept ==
    ASSUME LinesFinite, UNCHANGED req
    PROVE  LinesFinite'
BY DEF LinesFinite

LEMMA HooksKept ==
    ASSUME HooksRefer, UNCHANGED <<hook, links>>
    PROVE  HooksRefer'
BY DEF HooksRefer, Transferred

LEMMA MessagesKept ==
    ASSUME MessagesRefer, OrdersStay, UNCHANGED queue
    PROVE  MessagesRefer'
BY QueueUnchanged DEF MessagesRefer, OrdersStay, IsOrder, Sent

LEMMA WorkerKept ==
    ASSUME WorkerTypeOK, MessagesStay, NEW v \in Workers, WorkerRefers(v),
           wpc'[v] = wpc[v], batch'[v] = batch[v], cur'[v] = cur[v]
    PROVE  WorkerRefers(v)'
<1>1. \A r \in Receipt : r.msg \in MsgIds BY DEF Receipt
<1>2. \A r \in batch[v] : r.msg \in MsgIds
  BY <1>1 DEF WorkerTypeOK
<1>3. QED BY <1>1, <1>2 DEF WorkerRefers, MessagesStay, Handling, CurType, Sent

LEMMA WorkersKept ==
    ASSUME WorkersRefer, WorkerTypeOK, MessagesStay, UNCHANGED <<wpc, batch, cur>>
    PROVE  WorkersRefer'
BY WorkerKept DEF WorkersRefer

LEMMA WorkerTypesKept ==
    ASSUME WorkerTypeOK, UNCHANGED workerVars
    PROVE  WorkerTypeOK'
BY DEF WorkerTypeOK, workerVars

LEMMA PaymentTypesKept ==
    ASSUME PaymentTypeOK, UNCHANGED paymentVars
    PROVE  PaymentTypeOK'
BY DEF PaymentTypeOK, paymentVars

LEMMA CheckoutTypesKept ==
    ASSUME CheckoutTypeOK, RowsRefer, UNCHANGED checkoutVars
    PROVE  CheckoutTypeOK' /\ RowsRefer'
BY DEF CheckoutTypeOK, CatalogTypeOK, RowsRefer, checkoutVars

(***************************************************************************)
(* Checkout                                                                *)
(***************************************************************************)

(* What a step of checkout leaves to the other components to rely on. *)
ShoppingKeeps ==
    /\ FaultsTypeOK' /\ QueueTypeOK' /\ OrdersTypeOK' /\ CheckoutTypeOK'
    /\ RowsRefer' /\ RequestsRefer' /\ MessagesRefer'
    /\ OrdersStay /\ MessagesStay

(* Steps that touch neither orders nor queue need only look at the tab.    *)
LEMMA TabOnly ==
    ASSUME Typed, UNCHANGED <<orders, queue>>
    PROVE  QueueTypeOK' /\ OrdersTypeOK' /\ MessagesRefer' /\ OrdersStay /\ MessagesStay
<1>1. OrdersStay BY DEF OrdersStay, Exists
<1>2. QED
  BY <1>1, QueueUnchanged, MessagesKept
     DEF Typed, TypeOK, WellFormed, OrdersTypeOK

LEMMA AddStepTyped ==
    ASSUME Typed, NEW t \in Tabs,
           \/ \E p \in Products, q \in Quantities : BeginAdd(t, p, q)
           \/ FindCart(t) \/ MakeCart(t)
    PROVE  ShoppingKeeps
<1>1. UNCHANGED <<orders, queue>> /\ FaultsTypeOK'
  BY DEF Typed, TypeOK, FaultsTypeOK, BeginAdd, FindCart, MakeCart
<1>2. ASSUME NEW p \in Products, NEW q \in Quantities, BeginAdd(t, p, q)
      PROVE  CheckoutTypeOK' /\ RowsRefer' /\ RequestsRefer'
  <2>1. Wanted(q) \in Nat /\ products[p].price \in Nat
    BY CheckoutAssumption DEF Wanted, Typed, TypeOK, CheckoutTypeOK, CatalogTypeOK, Listing
  <2>2. CheckoutTypeOK'
    BY <1>2, <2>1 DEF Typed, TypeOK, CheckoutTypeOK, CatalogTypeOK, BeginAdd, Request,
       IdleReq
  <2>3. RowsRefer' /\ RequestsRefer'
    BY <1>2, <1>1 DEF Typed, TypeOK, CheckoutTypeOK, WellFormed, BeginAdd, RowsRefer,
       RequestsRefer, IdleReq, IsOrder, Exists
  <2>4. QED BY <2>2, <2>3
<1>3. ASSUME FindCart(t)
      PROVE  CheckoutTypeOK' /\ RowsRefer' /\ RequestsRefer'
  <2>1. req' \in [Tabs -> Request]
    BY <1>3 DEF FindCart, GoTo, Typed, TypeOK, CheckoutTypeOK, Request
  <2>2. CheckoutTypeOK' /\ RowsRefer'
    BY <1>3, <2>1 DEF FindCart, Typed, TypeOK, WellFormed, CheckoutTypeOK, CatalogTypeOK,
       RowsRefer
  <2>3. RequestsRefer'
    BY <1>3, <1>1 DEF FindCart, GoTo, At, Typed, TypeOK, WellFormed, CheckoutTypeOK,
       Request, RequestsRefer, IsOrder, Exists
  <2>4. QED BY <2>2, <2>3
<1>4. ASSUME MakeCart(t)
      PROVE  CheckoutTypeOK' /\ RowsRefer' /\ RequestsRefer'
  <2>0. TabUser[t] \in Users BY CheckoutAssumption
  <2>1. CheckoutTypeOK'
    <3>1. carts' \in [Users -> BOOLEAN]
      BY <1>4, <2>0 DEF MakeCart, Typed, TypeOK, CheckoutTypeOK
    <3>2. req' \in [Tabs -> Request]
      BY <1>4 DEF MakeCart, GoTo, Answer, IdleReq, At, Typed, TypeOK, CheckoutTypeOK,
         Request
    <3>3. QED
      BY <1>4, <3>1, <3>2 DEF MakeCart, Typed, TypeOK, CheckoutTypeOK, CatalogTypeOK
  <2>2. RowsRefer' /\ RequestsRefer'
    BY <1>4, <1>1 DEF MakeCart, GoTo, Answer, IdleReq, At, Typed, TypeOK, WellFormed,
       CheckoutTypeOK, Request, RowsRefer, RequestsRefer, IsOrder, Exists
  <2>3. QED BY <2>1, <2>2
<1>5. QED BY <1>1, <1>2, <1>3, <1>4, TabOnly DEF ShoppingKeeps

(* What AddItem and UpdateItemQuantity write is a row of the right type. *)
LEMMA RowWritten ==
    ASSUME Typed, NEW t \in Tabs, req[t].product \in Products, NEW r \in RowIds,
           AddItem(t, r) \/ UpdateItemQuantity(t, r)
    PROVE  rows' \in [RowIds -> CartRow] /\ RowsRefer' /\ late' \in SUBSET RowIds
<1>1. /\ TabUser[t] \in Users /\ req[t] \in Request
      /\ rows \in [RowIds -> CartRow] /\ late \in SUBSET RowIds
      /\ RowsRefer
  BY CheckoutAssumption DEF Typed, TypeOK, CheckoutTypeOK, WellFormed
<1>2. late' \in SUBSET RowIds
  BY <1>1 DEF AddItem, UpdateItemQuantity, Touch
<1>3. CASE AddItem(t, r)
  BY <1>1, <1>2, <1>3 DEF AddItem, CartRow, Request, RowsRefer
<1>4. CASE UpdateItemQuantity(t, r)
  <2>1. NewQty(t) \in Nat /\ req[t].qty \in Nat /\ rows[r].added \in Nat
    BY <1>1 DEF NewQty, Request, CartRow
  <2>2. QED BY <1>1, <1>2, <1>4, <2>1 DEF UpdateItemQuantity, CartRow, RowsRefer
<1>5. QED BY <1>3, <1>4

LEMMA ItemStepTyped ==
    ASSUME Typed, NEW t \in Tabs,
           FindItem(t) \/ InsertItem(t) \/ UpdateItem(t)
    PROVE  ShoppingKeeps
<1>1. UNCHANGED <<products, carts, orders, queue>>
  BY DEF FindItem, InsertItem, UpdateItem
<1>2. FaultsTypeOK'
  BY FaultTyped DEF Typed, TypeOK, FindItem, FoundItem, NoItem, InsertItem, UpdateItem
<1>3. req \in [Tabs -> Request] /\ rows \in [RowIds -> CartRow] /\ late \in SUBSET RowIds
      /\ RowsRefer /\ RequestsRefer
  BY DEF Typed, TypeOK, CheckoutTypeOK, WellFormed
<1>4. ASSUME req' \in [Tabs -> Request], rows' \in [RowIds -> CartRow],
             late' \in SUBSET RowIds, RowsRefer', RequestsRefer'
      PROVE  ShoppingKeeps
  BY <1>1, <1>2, <1>4, TabOnly
     DEF ShoppingKeeps, Typed, TypeOK, CheckoutTypeOK, CatalogTypeOK
<1>5. ASSUME NEW r \in RowIds, FoundItem(t, r), At(t, "item"), UNCHANGED <<rows, late>>
      PROVE  ShoppingKeeps
  <2>1. rows[r].qty \in Nat BY <1>3 DEF CartRow
  <2>2. [req[t] EXCEPT !.pc = "update", !.row = r, !.had = rows[r].qty] \in Request
    BY <1>3, <2>1 DEF Request
  <2>4. req' = [req EXCEPT ![t] =
                    [req[t] EXCEPT !.pc = "update", !.row = r, !.had = rows[r].qty]]
    BY <1>3, <1>5 DEF FoundItem, Request
  <2>5. req' \in [Tabs -> Request] BY <1>3, <2>2, <2>4
  <2>3. RowsRefer' /\ RequestsRefer'
    BY <1>1, <1>3, <1>5 DEF FoundItem, At, Request, RowsRefer, RequestsRefer, IsOrder, Exists
  <2>6. QED BY <1>3, <1>4, <1>5, <2>5, <2>3
<1>6. ASSUME NoItem(t), At(t, "item"), UNCHANGED <<rows, late>>
      PROVE  ShoppingKeeps
  <2>1. req' \in [Tabs -> Request] BY <1>3, <1>6, SMTT(30) DEF NoItem, GoTo, Request
  <2>2. RowsRefer' /\ RequestsRefer'
    BY <1>1, <1>3, <1>6 DEF NoItem, GoTo, At, Request, RowsRefer, RequestsRefer, IsOrder, Exists
  <2>3. QED BY <1>3, <1>4, <1>6, <2>1, <2>2
<1>7. ASSUME InsertItem(t) \/ UpdateItem(t)
      PROVE  ShoppingKeeps
  <2>1. req' \in [Tabs -> Request] /\ RequestsRefer'
    BY <1>1, <1>3, <1>7 DEF InsertItem, UpdateItem, Answer, IdleReq, Request, RequestsRefer,
       IsOrder, Exists
  <2>2. req[t].product \in Products /\ (At(t, "update") => req[t].row \in RowIds)
    BY <1>3, <1>7 DEF InsertItem, UpdateItem, At, RequestsRefer
  <2>3. \/ UNCHANGED <<rows, late>>
        \/ \E r \in RowIds : AddItem(t, r) \/ UpdateItemQuantity(t, r)
    BY <1>7, <2>2 DEF InsertItem, UpdateItem
  <2>4. rows' \in [RowIds -> CartRow] /\ late' \in SUBSET RowIds /\ RowsRefer'
    BY <1>3, <2>2, <2>3, RowWritten DEF RowsRefer
  <2>5. QED BY <1>4, <2>1, <2>4
<1>8. QED BY <1>5, <1>6, <1>7 DEF FindItem

(* The lines PlaceOrder reads are lines of an order. *)
LEMMA LinesTyped ==
    ASSUME Typed, NEW u
    PROVE  LinesOf(u) \in SUBSET OrderLine
BY DEF LinesOf, LineOfRow, CartRows, OrderLine, Typed, TypeOK, CheckoutTypeOK, CartRow,
   WellFormed, RowsRefer

LEMMA LinesOfFinite == ASSUME NEW u PROVE IsFiniteSet(LinesOf(u))
<1> DEFINE f == [r \in CartRows(u) |-> LineOfRow(r)]
<1>1. IsFiniteSet(RowIds) BY CheckoutAssumption, FS_Interval DEF RowIds
<1>2. IsFiniteSet(CartRows(u)) BY <1>1, FS_Subset DEF CartRows
<1>3. f \in Surjection(CartRows(u), LinesOf(u)) BY DEF Surjection, LinesOf
<1> HIDE DEF f
<1>4. QED BY <1>2, <1>3, FS_Surjection

(* Only ReadCart gives a request lines, and only those of a cart. *)
LEMMA ShoppingLines ==
    ASSUME Typed, Shopping
    PROVE  LinesFinite'
<1>1. LinesFinite /\ req \in [Tabs -> Request]
  BY DEF Typed, TypeOK, WellFormed, CheckoutTypeOK
<1>2. IsFiniteSet({}) BY FS_EmptySet
<1>3. ASSUME NEW t \in Tabs, \A s \in Tabs : s # t => req'[s] = req[s],
             \/ req'[t].lines = req[t].lines \/ req'[t].lines = {}
             \/ \E u : req'[t].lines = LinesOf(u)
      PROVE  LinesFinite'
  BY <1>1, <1>2, <1>3, LinesOfFinite DEF LinesFinite
<1>4. ASSUME NEW t \in Tabs, NEW p \in Products, NEW q \in Quantities, BeginAdd(t, p, q)
      PROVE  LinesFinite'
  BY <1>1, <1>3, <1>4 DEF BeginAdd, IdleReq
<1>5. ASSUME NEW t \in Tabs,
             (\E pc : GoTo(t, pc)) \/ Answer(t) \/ \E r \in RowIds : FoundItem(t, r)
      PROVE  LinesFinite'
  <2>1. /\ \A s \in Tabs : s # t => req'[s] = req[s]
        /\ req'[t].lines = req[t].lines \/ req'[t].lines = {}
    <3>1. ASSUME NEW pc, GoTo(t, pc)
          PROVE  (\A s \in Tabs : s # t => req'[s] = req[s]) /\ req'[t].lines = req[t].lines
      BY <1>1, <3>1 DEF GoTo, Request
    <3>2. ASSUME NEW r \in RowIds, FoundItem(t, r)
          PROVE  (\A s \in Tabs : s # t => req'[s] = req[s]) /\ req'[t].lines = req[t].lines
      BY <1>1, <3>2 DEF FoundItem, Request
    <3>3. CASE Answer(t) BY <1>1, <3>3 DEF Answer, IdleReq
    <3>4. QED BY <1>5, <3>1, <3>2, <3>3
  <2>2. QED BY <1>3, <2>1
<1>6. ASSUME NEW t \in Tabs, ReadCart(t)
      PROVE  LinesFinite'
  BY <1>1, <1>3, <1>6 DEF ReadCart, IdleReq
<1>7. ASSUME NEW t \in Tabs, NEW o, req' = [req EXCEPT ![t].pc = "clear", ![t].order = o]
      PROVE  LinesFinite'
  BY <1>1, <1>3, <1>7 DEF Request
<1>8. CASE UNCHANGED req BY <1>1, <1>8, LinesKept
<1>9. ASSUME NEW t \in Tabs, Shop(t)
      PROVE  LinesFinite'
  BY <1>4, <1>5, <1>8, <1>9 DEF Shop, FindCart, MakeCart, FindItem, NoItem, InsertItem,
     UpdateItem, RemoveFromCart
<1>10. ASSUME NEW t \in Tabs, Place(t)
       PROVE  LinesFinite'
  BY <1>5, <1>6, <1>7, <1>10 DEF Place, PlaceCreate, PlaceClear, PlacePublish
<1>11. QED BY <1>8, <1>9, <1>10 DEF Shopping, CheckoutStep, Sell

(* The total that PlaceOrder computes is a number. *)
LEMMA TotalTyped ==
    ASSUME NEW lines \in SUBSET OrderLine, IsFiniteSet(lines)
    PROVE  Priced(lines) /\ Cents(lines) \in Nat
<1>1. \A line \in lines : LinePrice(line) \in Nat
  <2>1. TAKE line \in lines
  <2>2. line.price \in Nat /\ line.qty \in Nat BY DEF OrderLine
  <2>3. QED BY <2>2 DEF LinePrice
<1>2. QED BY <1>1, CentsNear DEF Priced

LEMMA CartStepTyped ==
    ASSUME Typed, NEW t \in Tabs,
           (\E r \in RowIds : RemoveFromCart(t, r)) \/ ReadCart(t)
    PROVE  ShoppingKeeps
<1>1. UNCHANGED <<products, late, orders, queue>> /\ FaultsTypeOK'
  BY DEF RemoveFromCart, ReadCart, Typed, TypeOK, FaultsTypeOK
<1>2. ASSUME NEW r \in RowIds, RemoveFromCart(t, r)
      PROVE  CheckoutTypeOK' /\ RowsRefer' /\ RequestsRefer'
  <2>1. TabUser[t] \in Users BY CheckoutAssumption
  <2>2. CheckoutTypeOK'
    BY <1>2, <2>1 DEF RemoveFromCart, CartRows, Typed, TypeOK, CheckoutTypeOK,
       CatalogTypeOK, CartRow
  <2>3. RowsRefer' /\ RequestsRefer'
    BY <1>1, <1>2 DEF RemoveFromCart, CartRows, Typed, TypeOK, WellFormed, CheckoutTypeOK,
       CartRow, RowsRefer, RequestsRefer, IsOrder, Exists
  <2>4. QED BY <2>2, <2>3
<1>3. ASSUME ReadCart(t)
      PROVE  CheckoutTypeOK' /\ RowsRefer' /\ RequestsRefer'
  <2>1. LinesOf(TabUser[t]) \in SUBSET OrderLine BY LinesTyped
  <2>2. CheckoutTypeOK'
    BY <1>3, <2>1 DEF ReadCart, IdleReq, Typed, TypeOK, CheckoutTypeOK, CatalogTypeOK,
       Request
  <2>3. RowsRefer' /\ RequestsRefer'
    BY <1>1, <1>3 DEF ReadCart, IdleReq, Typed, TypeOK, WellFormed, CheckoutTypeOK,
       Request, RowsRefer, RequestsRefer, IsOrder, Exists
  <2>4. QED BY <2>2, <2>3
<1>4. QED BY <1>1, <1>2, <1>3, TabOnly DEF ShoppingKeeps

LEMMA PlaceStepTyped ==
    ASSUME Typed, NEW t \in Tabs,
           PlaceCreate(t) \/ PlaceClear(t) \/ PlacePublish(t)
    PROVE  ShoppingKeeps
<1>1. /\ req \in [Tabs -> Request] /\ rows \in [RowIds -> CartRow]
      /\ RowsRefer /\ RequestsRefer /\ MessagesRefer
      /\ OrdersTypeOK /\ QueueTypeOK /\ FaultsTypeOK
      /\ TabUser[t] \in Users
  BY CheckoutAssumption DEF Typed, TypeOK, CheckoutTypeOK, WellFormed, OrdersTypeOK
<1>2. UNCHANGED <<products, carts, late>>
  BY DEF PlaceCreate, PlaceClear, PlacePublish
<1>3. req' \in [Tabs -> Request]
  BY <1>1 DEF PlaceCreate, PlaceClear, PlacePublish, GoTo, Answer, IdleReq, Request
<1>4. rows' \in [RowIds -> CartRow] /\ RowsRefer'
  BY <1>1 DEF PlaceCreate, PlaceClear, PlacePublish, ClearCart, CartRows, CartRow, RowsRefer
<1>5. CheckoutTypeOK'
  BY <1>2, <1>3, <1>4 DEF Typed, TypeOK, CheckoutTypeOK, CatalogTypeOK
<1>6. FaultsTypeOK'
  BY <1>1, FaultTyped, PublishTyped DEF PlaceCreate, PlaceClear, PlacePublish,
     PublishOrderEvent
<1>7. CASE PlaceCreate(t)
  <2>1. MessagesStay /\ QueueTypeOK'
    BY <1>1, <1>7, QueueUnchanged DEF PlaceCreate
  <2>2. PICK o \in OrderIds : NextOrder(o) /\
           \/ /\ CreateOrder(o, TabUser[t], Cents(req[t].lines), req[t].lines)
              /\ req' = [req EXCEPT ![t].pc = "clear", ![t].order = o]
           \/ /\ \/ UNCHANGED orders
                 \/ CreateOrder(o, TabUser[t], Cents(req[t].lines), req[t].lines)
              /\ Answer(t)
    BY <1>7 DEF PlaceCreate
  <2>3. Cents(req[t].lines) \in Nat /\ req[t].lines \in SUBSET OrderLine
    <3>1. req[t].lines \in SUBSET OrderLine BY <1>1 DEF Request
    <3>2. IsFiniteSet(req[t].lines) BY DEF Typed, WellFormed, LinesFinite
    <3>3. QED BY <3>1, <3>2, TotalTyped
  <2>4. ASSUME CreateOrder(o, TabUser[t], Cents(req[t].lines), req[t].lines)
        PROVE  OrdersTypeOK' /\ OrdersStay /\ IsOrder(o)'
    BY <1>1, <2>2, <2>3, <2>4, CreateTyped
  <2>5. OrdersTypeOK' /\ OrdersStay
    BY <1>1, <2>2, <2>4 DEF OrdersTypeOK, OrdersStay, Exists
  <2>6. RequestsRefer'
    BY <1>1, <2>2, <2>4, <2>5 DEF Answer, IdleReq, Request, RequestsRefer, OrdersStay, IsOrder
  <2>7. MessagesRefer' BY <1>1, <1>7, <2>5, MessagesKept DEF PlaceCreate
  <2>8. QED BY <1>4, <1>5, <1>6, <2>1, <2>5, <2>6, <2>7 DEF ShoppingKeeps
<1>8. CASE PlaceClear(t)
  <2>1. MessagesStay /\ QueueTypeOK' /\ OrdersStay /\ OrdersTypeOK' /\ MessagesRefer'
    BY <1>8, TabOnly DEF PlaceClear
  <2>2. RequestsRefer'
    BY <1>1, <1>8, <2>1 DEF PlaceClear, GoTo, Answer, At, IdleReq, Request, RequestsRefer,
       OrdersStay, IsOrder
  <2>3. QED BY <1>4, <1>5, <1>6, <2>1, <2>2 DEF ShoppingKeeps
<1>9. CASE PlacePublish(t)
  <2>1. IsOrder(req[t].order)
    BY <1>1, <1>9 DEF PlacePublish, At, RequestsRefer
  <2>2. OrdersStay /\ OrdersTypeOK'
    BY <1>1, <1>9 DEF PlacePublish, OrdersStay, OrdersTypeOK, Exists
  <2>3. "ORDER_PLACED" \in Events /\ req[t].order \in OrderIds
    BY <2>1 DEF Events, IsOrder
  <2>4. /\ QueueTypeOK' /\ MessagesStay
        /\ \A k \in MsgIds : Sent(k)' =>
              Sent(k) \/ (queue'[k].type = "ORDER_PLACED" /\ queue'[k].order = req[t].order)
    BY <1>1, <1>9, <2>3, PublishTyped DEF PlacePublish
  <2>5. MessagesRefer'
    BY <1>1, <2>1, <2>2, <2>4 DEF MessagesRefer, MessagesStay, OrdersStay, IsOrder
  <2>6. RequestsRefer'
    BY <1>1, <1>9, <2>2 DEF PlacePublish, Answer, IdleReq, Request, RequestsRefer, OrdersStay,
       IsOrder
  <2>7. QED BY <1>4, <1>5, <1>6, <2>2, <2>4, <2>5, <2>6 DEF ShoppingKeeps
<1>10. QED BY <1>7, <1>8, <1>9

LEMMA SellTyped ==
    ASSUME Typed, Sell
    PROVE  ShoppingKeeps
<1>1. UNCHANGED <<carts, rows, req, late, orders, queue, faults>> BY DEF Sell
<1>2. products' \in [Products -> Listing]
  <2>1. products \in [Products -> Listing]
    BY DEF Typed, TypeOK, CheckoutTypeOK, CatalogTypeOK
  <2>2. ASSUME NEW p \in Products, NEW e \in Edits, UpdateProduct(p, e)
        PROVE  products' \in [Products -> Listing]
    <3>1. e \in [price : Nat, stock : Int, status : Statuses \cup {""}]
      BY CatalogAssumption
    <3>2. Edited(products[p], e) \in Listing
      <4>1. /\ products[p].price \in Nat \ {0} /\ products[p].stock \in Nat
            /\ products[p].status \in Statuses
        BY <2>1 DEF Listing
      <4>2. e.price \in Nat /\ e.stock \in Int /\ e.status \in Statuses \cup {""}
        BY <3>1
      <4>3. (IF e.price > 0 THEN e.price ELSE products[p].price) \in Nat \ {0}
        <5>1. CASE e.price > 0
          <6>1. \A n \in Nat : n > 0 => n \in Nat \ {0} OBVIOUS
          <6>2. e.price \in Nat \ {0} BY <4>2, <5>1, <6>1, Zenon
          <6>3. QED BY <5>1, <6>2, Zenon
        <5>2. CASE ~ (e.price > 0) BY <4>1, <5>2, Zenon
        <5>3. QED BY <5>1, <5>2
      <4>4. (IF e.stock >= 0 THEN e.stock ELSE products[p].stock) \in Nat
        <5>1. CASE e.stock >= 0
          <6>1. \A n \in Int : n >= 0 => n \in Nat OBVIOUS
          <6>2. e.stock \in Nat BY <4>2, <5>1, <6>1, Zenon
          <6>3. QED BY <5>1, <6>2, Zenon
        <5>2. CASE ~ (e.stock >= 0) BY <4>1, <5>2, Zenon
        <5>3. QED BY <5>1, <5>2
      <4>5. (IF e.status # "" THEN e.status ELSE products[p].status) \in Statuses
        <5>1. CASE e.status = "" BY <4>1, <5>1
        <5>2. CASE e.status # "" BY <4>2, <5>2, Zenon
        <5>3. QED BY <5>1, <5>2
      <4>6. QED BY <4>3, <4>4, <4>5 DEF Edited, Listing
    <3>3. products' = [products EXCEPT ![p] = Edited(products[p], e)]
      BY <2>2 DEF UpdateProduct
    <3>4. QED BY <2>1, <3>2, <3>3
  <2>3. ASSUME NEW p \in Products, DeleteProduct(p)
        PROVE  products' \in [Products -> Listing]
    BY <2>1, <2>3, CatalogAssumption DEF DeleteProduct, Listing
  <2>4. \/ \E p \in Products, e \in Edits : UpdateProduct(p, e)
        \/ \E p \in Products : DeleteProduct(p)
    BY CatalogAssumption DEF Sell, CatalogStep
  <2>5. QED BY <2>2, <2>3, <2>4
<1>3. CheckoutTypeOK' /\ RowsRefer' /\ FaultsTypeOK'
  BY <1>1, <1>2 DEF Typed, TypeOK, WellFormed, CheckoutTypeOK, CatalogTypeOK, RowsRefer,
     FaultsTypeOK
<1>4. QED BY <1>1, <1>3, TabOnly, RequestsKept DEF ShoppingKeeps, Typed, WellFormed

(* Every step of checkout keeps the types and references of the system. *)
LEMMA ShoppingTyped ==
    ASSUME Typed, Shopping
    PROVE  Typed' /\ OrdersStay /\ MessagesStay
<1>1. ShoppingKeeps
  BY AddStepTyped, ItemStepTyped, CartStepTyped, PlaceStepTyped, SellTyped
     DEF Shopping, CheckoutStep, Shop, Place
<1>2. UNCHANGED <<links, pay, hook, wpc, batch, cur, workerVars, paymentVars>>
  BY DEF Shopping, paymentVars, workerVars
<1>3. TypeOK'
  BY <1>1, <1>2, PaymentTypesKept, WorkerTypesKept DEF Typed, TypeOK, ShoppingKeeps,
     OrdersTypeOK
<1>4. WellFormed'
  BY <1>1, <1>2, ShoppingLines, LinksKept, PayReqsKept, HooksKept, WorkersKept
     DEF Typed, TypeOK, WellFormed, ShoppingKeeps
<1>5. QED BY <1>1, <1>3, <1>4 DEF Typed, ShoppingKeeps

(***************************************************************************)
(* Payment                                                                 *)
(***************************************************************************)

(* An amount in cents rounds to a whole number of dong. *)
LEMMA DongTyped ==
    ASSUME NEW n \in Nat
    PROVE  Dong(n) \in Nat
BY DEF Dong, RoundDiv

(* What a step of payment leaves to the other components to rely on. *)
PayingKeeps ==
    /\ FaultsTypeOK' /\ QueueTypeOK' /\ OrdersTypeOK' /\ PaymentTypeOK'
    /\ LinksRefer' /\ PayReqsRefer' /\ HooksRefer' /\ MessagesRefer'
    /\ OrdersStay /\ MessagesStay

LEMMA LinkStepTyped ==
    ASSUME Typed, NEW t \in PayReqs, LinkStep(t)
    PROVE  PayingKeeps
<1>1. /\ PaymentTypeOK /\ OrdersTypeOK /\ QueueTypeOK /\ FaultsTypeOK
      /\ LinksRefer /\ PayReqsRefer /\ HooksRefer /\ MessagesRefer
  BY DEF Typed, TypeOK, WellFormed, OrdersTypeOK
<1>2. FaultsTypeOK' /\ QueueTypeOK' /\ MessagesStay
  BY <1>1, FaultTyped, QueueUnchanged
     DEF LinkStep, RequestLink, CallPayOS, SaveLink, FaultsTypeOK
<1>3. ASSUME OrdersTypeOK', OrdersStay, PaymentTypeOK', LinksRefer', PayReqsRefer',
             HooksRefer', UNCHANGED queue
      PROVE  PayingKeeps
  BY <1>1, <1>2, <1>3, MessagesKept DEF PayingKeeps
<1>4. ASSUME NEW o \in OrderIds, NEW u \in Users, RequestLink(t, o, u)
      PROVE  PayingKeeps
  <2>1. orders[o].total \in Nat
    BY <1>1, <1>4, ExistsIsOrder DEF RequestLink, Order
  <2>2. Dong(orders[o].total) \in Int BY <2>1, DongTyped
  <2>3. OrdersTypeOK' /\ OrdersStay /\ UNCHANGED queue
    BY <1>1, <1>4 DEF RequestLink, OrdersTypeOK, OrdersStay, Exists
  <2>4. PaymentTypeOK'
    BY <1>1, <1>4, <2>2 DEF RequestLink, PaymentTypeOK, PayReq
  <2>5. PayReqsRefer'
    BY <1>1, <1>4, <2>3 DEF RequestLink, PaymentTypeOK, PayReq, PayReqsRefer, IsOrder,
       OrdersStay
  <2>6. LinksRefer' /\ HooksRefer'
    BY <1>1, <1>4, <2>3, LinksKept, HooksKept DEF RequestLink
  <2>7. QED BY <1>3, <2>3, <2>4, <2>5, <2>6
<1>5. ASSUME CallPayOS(t)
      PROVE  PayingKeeps
  <2>1. PICK l \in LinkIds :
           /\ NextLink(l)
           /\ UNCHANGED links \/ IssueLink(l, pay[t].order, pay[t].asked)
           /\ \/ /\ pay' = [pay EXCEPT ![t].pc = "save", ![t].link = l]
                 /\ IssueLink(l, pay[t].order, pay[t].asked)
              \/ pay' = [pay EXCEPT ![t] = IdlePay]
    BY <1>5 DEF CallPayOS
  <2>2. OrdersTypeOK' /\ OrdersStay /\ UNCHANGED <<queue, hook, orders>>
    BY <1>1, <1>5 DEF CallPayOS, OrdersTypeOK, OrdersStay, Exists
  <2>3. IsOrder(pay[t].order) /\ pay[t].asked \in Int
    BY <1>1, <1>5 DEF CallPayOS, PayReqsRefer, PaymentTypeOK, PayReq
  <2>4. pay' \in [PayReqs -> PayReq] /\ PayReqsRefer'
    BY <1>1, <2>1, <2>2, <2>3 DEF PaymentTypeOK, PayReq, IdlePay, PayReqsRefer, IsOrder,
       OrdersStay
  <2>5. links' \in [LinkIds -> PaymentLink] /\ LinksRefer'
    BY <1>1, <2>1, <2>2, <2>3 DEF IssueLink, PaymentTypeOK, PaymentLink, LinksRefer, IsOrder,
       OrdersStay
  <2>6. HooksRefer'
    BY <1>1, <2>1, <2>2 DEF NextLink, IssueLink, PaymentTypeOK, HooksRefer, Transferred
  <2>7. PaymentTypeOK' BY <1>1, <2>2, <2>4, <2>5 DEF PaymentTypeOK
  <2>8. QED BY <1>3, <2>2, <2>4, <2>5, <2>6, <2>7
<1>6. ASSUME SaveLink(t)
      PROVE  PayingKeeps
  <2>1. IsOrder(pay[t].order) /\ pay[t].link \in LinkIds \cup {0}
    BY <1>1, <1>6 DEF SaveLink, PayReqsRefer, PaymentTypeOK, PayReq
  <2>2. UNCHANGED orders \/ SetLink(pay[t].order, pay[t].link)
    BY <1>6 DEF SaveLink
  <2>3. OrdersTypeOK' /\ OrdersStay
    <3>1. CASE UNCHANGED orders BY <1>1, <3>1 DEF OrdersTypeOK, OrdersStay, Exists
    <3>2. CASE SetLink(pay[t].order, pay[t].link) BY <1>1, <2>1, <3>2, UpdateTyped
    <3>3. QED BY <2>2, <3>1, <3>2
  <2>4. UNCHANGED <<queue, links, hook>> /\ pay' = [pay EXCEPT ![t] = IdlePay]
    BY <1>6 DEF SaveLink
  <2>5. PaymentTypeOK'
    BY <1>1, <2>4 DEF PaymentTypeOK, PayReq, IdlePay
  <2>6. PayReqsRefer'
    BY <1>1, <2>3, <2>4 DEF PaymentTypeOK, PayReq, IdlePay, PayReqsRefer, IsOrder, OrdersStay
  <2>7. LinksRefer' /\ HooksRefer' BY <1>1, <2>3, <2>4, LinksKept, HooksKept
  <2>8. QED BY <1>3, <2>3, <2>4, <2>5, <2>6, <2>7
<1>7. QED BY <1>4, <1>5, <1>6 DEF LinkStep

LEMMA PayOSStepTyped ==
    ASSUME Typed,
           \/ \E l \in LinkIds, slip \in Slips : Transfer(l, slip)
           \/ \E h \in Hooks, l \in LinkIds : Deliver(h, l)
           \/ \E h \in Hooks : Ping(h)
    PROVE  PayingKeeps
<1>1. /\ PaymentTypeOK /\ OrdersTypeOK /\ QueueTypeOK /\ FaultsTypeOK
      /\ LinksRefer /\ PayReqsRefer /\ HooksRefer /\ MessagesRefer
  BY DEF Typed, TypeOK, WellFormed, OrdersTypeOK
<1>2. UNCHANGED <<orders, queue, pay>> /\ FaultsTypeOK'
  BY <1>1, FaultTyped DEF Transfer, Deliver, Ping, FaultsTypeOK
<1>3. PayReqsRefer' BY <1>1, <1>2, TabOnly, PayReqsKept
<1>4. ASSUME PaymentTypeOK', LinksRefer', HooksRefer'
      PROVE  PayingKeeps
  BY <1>2, <1>3, <1>4, TabOnly DEF PayingKeeps
<1>5. ASSUME NEW l \in LinkIds, NEW slip \in Slips, Transfer(l, slip)
      PROVE  PayingKeeps
  <2>1. links[l].asked - slip \in Int
    BY <1>1, PaymentAssumption DEF PaymentTypeOK, PaymentLink
  <2>2. PaymentTypeOK'
    BY <1>1, <1>5, <2>1 DEF Transfer, PaymentTypeOK, PaymentLink
  <2>3. LinksRefer' /\ HooksRefer'
    BY <1>1, <1>5 DEF Transfer, PaymentTypeOK, PaymentLink, LinksRefer, HooksRefer,
       Transferred, IsOrder, Exists
  <2>4. QED BY <1>4, <2>2, <2>3
<1>6. ASSUME NEW h \in Hooks, NEW l \in LinkIds, Deliver(h, l)
      PROVE  PayingKeeps
  <2>1. PaymentTypeOK' BY <1>1, <1>6 DEF Deliver, PaymentTypeOK, HookReq
  <2>2. LinksRefer' /\ HooksRefer'
    BY <1>1, <1>6 DEF Deliver, PaymentTypeOK, HookReq, LinksRefer, HooksRefer, Transferred,
       IsOrder, Exists
  <2>3. QED BY <1>4, <2>1, <2>2
<1>7. ASSUME NEW h \in Hooks, Ping(h)
      PROVE  PayingKeeps
  <2>1. PaymentTypeOK' BY <1>1, <1>7 DEF Ping, PaymentTypeOK, HookReq
  <2>2. LinksRefer' /\ HooksRefer'
    BY <1>1, <1>7 DEF Ping, PaymentTypeOK, HookReq, LinksRefer, HooksRefer, Transferred,
       IsOrder, Exists
  <2>3. QED BY <1>4, <2>1, <2>2
<1>8. QED BY <1>5, <1>6, <1>7

LEMMA HookStepTyped ==
    ASSUME Typed, NEW h \in Hooks, HookStep(h)
    PROVE  PayingKeeps
<1>1. /\ PaymentTypeOK /\ OrdersTypeOK /\ QueueTypeOK /\ FaultsTypeOK
      /\ LinksRefer /\ PayReqsRefer /\ HooksRefer /\ MessagesRefer
      /\ hook \in [Hooks -> HookReq] /\ links \in [LinkIds -> PaymentLink]
  BY DEF Typed, TypeOK, WellFormed, OrdersTypeOK, PaymentTypeOK
<1>2. UNCHANGED pay /\ FaultsTypeOK'
  BY <1>1, FaultTyped
     DEF HookStep, HookLoad, HookCredit, HookPublish, HookAnswer, PublishOrderEvent
<1>3. ASSUME OrdersTypeOK', OrdersStay, QueueTypeOK', MessagesStay, MessagesRefer',
             hook' \in [Hooks -> HookReq], links' \in [LinkIds -> PaymentLink],
             LinksRefer', HooksRefer'
      PROVE  PayingKeeps
  BY <1>1, <1>2, <1>3, PayReqsKept DEF PayingKeeps, PaymentTypeOK
<1>4. ASSUME hook[h].link # 0
      PROVE  IsOrder(HookOrder(h))
  BY <1>1, <1>4 DEF HookOrder, HooksRefer, Transferred, LinksRefer
<1>5. ASSUME HookLoad(h)
      PROVE  PayingKeeps
  <2>1. UNCHANGED <<orders, queue, links>> BY <1>5 DEF HookLoad
  <2>2. hook' \in [Hooks -> HookReq] /\ HooksRefer'
    BY <1>1, <1>5 DEF HookLoad, HookGoTo, Creditable, HookReq, HooksRefer, Transferred
  <2>3. QED BY <1>1, <1>3, <2>1, <2>2, TabOnly, LinksKept
<1>6. ASSUME HookCredit(h)
      PROVE  PayingKeeps
  <2>1. UNCHANGED <<queue, links>> /\ IsOrder(HookOrder(h)) /\ hook[h].link # 0
    BY <1>1, <1>4, <1>6 DEF HookCredit, HooksRefer
  <2>2. UNCHANGED orders \/ SetPaid(HookOrder(h)) BY <1>6 DEF HookCredit
  <2>3. OrdersTypeOK' /\ OrdersStay
    <3>1. CASE UNCHANGED orders BY <1>1, <3>1 DEF OrdersTypeOK, OrdersStay, Exists
    <3>2. CASE SetPaid(HookOrder(h)) BY <1>1, <2>1, <3>2, UpdateTyped
    <3>3. QED BY <2>2, <3>1, <3>2
  <2>4. \/ \E pc \in {"publish", "answer"} : HookGoTo(h, pc)
        \/ CreditFails(h)
    BY <1>6 DEF HookCredit
  <2>5. hook' \in [Hooks -> HookReq] /\ HooksRefer'
    BY <1>1, <2>1, <2>4 DEF HookGoTo, CreditFails, IdleHook, HookReq, HooksRefer, Transferred
  <2>6. QueueTypeOK' /\ MessagesStay BY <1>1, <2>1, QueueUnchanged
  <2>7. QED BY <1>1, <1>3, <2>1, <2>3, <2>5, <2>6, LinksKept, MessagesKept
<1>7. ASSUME HookPublish(h)
      PROVE  PayingKeeps
  <2>1. UNCHANGED <<orders, links>> /\ IsOrder(HookOrder(h))
    BY <1>1, <1>4, <1>7 DEF HookPublish, HooksRefer
  <2>2. OrdersStay /\ OrdersTypeOK'
    BY <1>1, <2>1 DEF OrdersStay, OrdersTypeOK, Exists
  <2>3. "ORDER_PAID" \in Events /\ HookOrder(h) \in OrderIds
    BY <2>1 DEF Events, IsOrder
  <2>4. /\ QueueTypeOK' /\ MessagesStay
        /\ \A k \in MsgIds : Sent(k)' =>
              Sent(k) \/ (queue'[k].type = "ORDER_PAID" /\ queue'[k].order = HookOrder(h))
    BY <1>1, <1>7, <2>3, PublishTyped DEF HookPublish
  <2>5. MessagesRefer'
    BY <1>1, <2>1, <2>2, <2>4 DEF MessagesRefer, MessagesStay, OrdersStay, IsOrder
  <2>6. hook' \in [Hooks -> HookReq] /\ HooksRefer'
    BY <1>1, <1>7 DEF HookPublish, HookGoTo, HookReq, HooksRefer, Transferred
  <2>7. QED BY <1>1, <1>3, <2>1, <2>2, <2>4, <2>5, <2>6, LinksKept
<1>8. ASSUME HookAnswer(h)
      PROVE  PayingKeeps
  <2>1. UNCHANGED <<orders, queue>> /\ hook' = [hook EXCEPT ![h] = IdleHook]
    BY <1>8 DEF HookAnswer
  <2>2. \/ UNCHANGED links
        \/ links' = [l \in LinkIds |->
                        IF l = hook[h].link THEN [links[l] EXCEPT !.state = "acked"]
                                            ELSE links[l]]
    BY <1>8 DEF HookAnswer
  <2>3. links' \in [LinkIds -> PaymentLink]
    BY <1>1, <2>2 DEF PaymentLink
  <2>4. \A l \in LinkIds : /\ links'[l].order = links[l].order
                           /\ links'[l].state # "none" => links[l].state # "none"
                           /\ Transferred(l) => Transferred(l)'
    <3>1. \A l \in LinkIds : l = hook[h].link => Transferred(l)
      BY <1>1, PaymentAssumption DEF LinkIds, HooksRefer
    <3>2. QED BY <1>1, <2>2, <3>1 DEF PaymentLink, Transferred
  <2>5. LinksRefer'
    BY <1>1, <2>1, <2>4 DEF LinksRefer, IsOrder, Exists
  <2>6. hook' \in [Hooks -> HookReq]
    BY <1>1, <2>1 DEF IdleHook, HookReq
  <2>7. HooksRefer'
    BY <1>1, <2>1, <2>4 DEF IdleHook, HookReq, HooksRefer, Transferred
  <2>8. QED BY <1>3, <2>1, <2>3, <2>5, <2>6, <2>7, TabOnly
<1>9. QED BY <1>5, <1>6, <1>7, <1>8 DEF HookStep

(* Every step of payment keeps the types and references of the system. *)
LEMMA PayingTyped ==
    ASSUME Typed, Paying
    PROVE  Typed' /\ OrdersStay /\ MessagesStay
<1>1. PayingKeeps
  BY LinkStepTyped, PayOSStepTyped, HookStepTyped DEF Paying, PaymentStep
<1>2. UNCHANGED <<req, rows, wpc, batch, cur, workerVars, checkoutVars>>
  BY DEF Paying, checkoutVars, workerVars
<1>3. TypeOK' /\ RowsRefer'
  BY <1>1, <1>2, CheckoutTypesKept, WorkerTypesKept DEF Typed, TypeOK, WellFormed,
     PayingKeeps, OrdersTypeOK
<1>4. WellFormed'
  BY <1>1, <1>2, <1>3, RequestsKept, LinesKept, WorkersKept
     DEF Typed, TypeOK, WellFormed, PayingKeeps
<1>5. QED BY <1>1, <1>3, <1>4 DEF Typed, PayingKeeps

(***************************************************************************)
(* The workers and the queue                                               *)
(***************************************************************************)

(* Handing messages out, and deleting one, keeps every body. *)
LEMMA HandOutTyped ==
    ASSUME QueueTypeOK, NEW B, B \subseteq Receivable, HandOut(B)
    PROVE  QueueTypeOK' /\ MessagesStay /\ \A k \in MsgIds : Sent(k)' => Sent(k)
<1>1. ASSUME NEW m \in B
      PROVE  m \in MsgIds /\ queue[m].receives + 1 \in 0 .. MaxReceive /\ Sent(m)
  BY SqsAssumption DEF Receivable, QueueTypeOK, Message, Sent
<1>2. QueueTypeOK'
  BY <1>1 DEF HandOut, QueueTypeOK, Message
<1>3. MessagesStay
  BY <1>1 DEF HandOut, QueueTypeOK, Message, MessagesStay, Sent
<1>4. \A k \in MsgIds : Sent(k)' => Sent(k)
  BY <1>1 DEF HandOut, QueueTypeOK, Sent
<1>5. QED BY <1>2, <1>3, <1>4

LEMMA DeleteTyped ==
    ASSUME QueueTypeOK, NEW r \in Receipt, Sent(r.msg), DeleteMessage(r)
    PROVE  QueueTypeOK' /\ MessagesStay /\ \A k \in MsgIds : Sent(k)' => Sent(k)
<1>1. r.msg \in MsgIds BY DEF Receipt
<1>2. CASE UNCHANGED queue BY <1>2, QueueUnchanged
<1>3. CASE queue' = [queue EXCEPT ![r.msg].state = "deleted"]
  BY <1>1, <1>3 DEF QueueTypeOK, Message, MessagesStay, Sent
<1>4. QED BY <1>2, <1>3 DEF DeleteMessage

(* What a step of a worker leaves to the other components to rely on. *)
WorkingKeeps ==
    /\ FaultsTypeOK' /\ QueueTypeOK' /\ OrdersTypeOK' /\ WorkerTypeOK'
    /\ MessagesRefer' /\ WorkersRefer'
    /\ OrdersStay /\ MessagesStay

(* No step of a worker sends a message, so the messages stay about orders. *)
LEMMA NothingSent ==
    ASSUME MessagesRefer, OrdersStay, MessagesStay, \A k \in MsgIds : Sent(k)' => Sent(k)
    PROVE  MessagesRefer'
BY DEF MessagesRefer, OrdersStay, MessagesStay, IsOrder

(* A worker only moves itself: the rest of the frame is common.            *)
LEMMA WorkerFrame ==
    ASSUME Typed, NEW w \in Workers, OrdersTypeOK', OrdersStay, QueueTypeOK', MessagesStay,
           FaultsTypeOK', WorkerTypeOK', \A k \in MsgIds : Sent(k)' => Sent(k),
           \A v \in Workers \ {w} :
               wpc'[v] = wpc[v] /\ batch'[v] = batch[v] /\ cur'[v] = cur[v],
           WorkerRefers(w)'
    PROVE  WorkingKeeps
<1>1. WorkerTypeOK /\ MessagesRefer /\ \A v \in Workers : WorkerRefers(v)
  BY DEF Typed, TypeOK, WellFormed, WorkersRefer
<1>2. \A v \in Workers \ {w} : WorkerRefers(v)' BY <1>1, WorkerKept
<1>3. WorkersRefer' BY <1>2 DEF WorkersRefer
<1>4. QED BY <1>1, <1>3, NothingSent DEF WorkingKeeps

(* Steps after which the worker is not handling anything. *)
LEMMA RestTyped ==
    ASSUME Typed, NEW w \in Workers,
           \/ Stop(w) \/ EmptyReceive(w) \/ ReceiveFails(w) \/ BackoffEnds(w)
           \/ BatchDone(w) \/ Crash(w) \/ Start(w)
    PROVE  WorkingKeeps
<1>1. WorkerTypeOK /\ QueueTypeOK /\ WorkerRefers(w)
  BY DEF Typed, TypeOK, WellFormed, WorkersRefer
<1>2. /\ OrdersTypeOK' /\ OrdersStay
      /\ UNCHANGED <<orders, placedMails, paidMails>>
  BY DEF Typed, TypeOK, OrdersTypeOK, OrdersStay, Exists, workerVars,
     Stop, EmptyReceive, ReceiveFails, BackoffEnds, BatchDone, Crash, Start
<1>3. FaultsTypeOK'
  BY FaultTyped DEF Typed, TypeOK, FaultsTypeOK,
     Stop, EmptyReceive, ReceiveFails, BackoffEnds, BatchDone, Crash, Start
<1>4. QueueTypeOK' /\ MessagesStay /\ \A k \in MsgIds : Sent(k)' => Sent(k)
  <2>1. UNCHANGED queue \/ \E B \in SUBSET Receivable : HandOut(B)
    BY DEF Batches,
       Stop, EmptyReceive, ReceiveFails, BackoffEnds, BatchDone, Crash, Start
  <2>2. CASE UNCHANGED queue BY <1>1, <2>2, QueueUnchanged
  <2>3. QED BY <1>1, <2>1, <2>2, HandOutTyped
<1>5. \/ UNCHANGED wpc
      \/ \E pc \in {"stopped", "poll", "backoff"} : WGoTo(w, pc)
  BY DEF workerVars, Stop, EmptyReceive, ReceiveFails, BackoffEnds, BatchDone, Crash, Start
<1>6. /\ UNCHANGED batch \/ batch' = [batch EXCEPT ![w] = {}]
      /\ UNCHANGED cur \/ cur' = [cur EXCEPT ![w] = NoReceipt]
      /\ UNCHANGED shutdown \/ shutdown' = [shutdown EXCEPT ![w] = FALSE]
  BY DEF workerVars, Stop, EmptyReceive, ReceiveFails, BackoffEnds, BatchDone, Crash, Start
<1>7. WorkerTypeOK'
  <2>1. wpc' \in [Workers -> Pcs] BY <1>1, <1>5 DEF WorkerTypeOK, WGoTo, Pcs
  <2>2. /\ batch' \in [Workers -> SUBSET Receipt]
        /\ cur' \in [Workers -> Receipt \cup {NoReceipt}]
    BY <1>1, <1>6 DEF WorkerTypeOK
  <2>3. shutdown' \in [Workers -> BOOLEAN] BY <1>1, <1>6 DEF WorkerTypeOK
  <2>4. QED BY <1>1, <1>2, <2>1, <2>2, <2>3 DEF WorkerTypeOK
<1>8. wpc[w] \in {"stopped", "poll", "backoff"} \/ ~ UNCHANGED wpc
  BY <1>1 DEF WGoTo, WorkerTypeOK, workerVars, Stop, EmptyReceive, ReceiveFails, BackoffEnds,
     BatchDone, Crash, Start
<1>9. \A v \in Workers \ {w} :
          wpc'[v] = wpc[v] /\ batch'[v] = batch[v] /\ cur'[v] = cur[v]
  BY <1>1, <1>5, <1>6 DEF WGoTo, WorkerTypeOK
<1>10. WorkerRefers(w)'
  <2>1. \A r \in batch[w] : r.msg \in MsgIds BY <1>1 DEF WorkerTypeOK, Receipt
  <2>2. \A r \in batch'[w] : Sent(r.msg)'
    BY <1>1, <1>4, <1>6, <2>1 DEF WorkerTypeOK, WorkerRefers, MessagesStay
  <2>3. wpc'[w] \in {"stopped", "poll", "backoff"}
    BY <1>1, <1>5, <1>8 DEF WGoTo, WorkerTypeOK
  <2>4. QED BY <2>2, <2>3 DEF WorkerRefers, Handling
<1>11. QED BY <1>2, <1>3, <1>4, <1>7, <1>9, <1>10, WorkerFrame

(* A received message was sent, and its receipt is one of this queue. *)
LEMMA ReceiveTyped ==
    ASSUME Typed, NEW w \in Workers, Receive(w)
    PROVE  WorkingKeeps
<1>1. WorkerTypeOK /\ QueueTypeOK /\ WorkerRefers(w)
  BY DEF Typed, TypeOK, WellFormed, WorkersRefer
<1>2. PICK B \in SUBSET Receivable :
         HandOut(B) /\ batch' = [batch EXCEPT ![w] = ReceiptsOf(B)]
  BY DEF Receive, Batches
<1>3. QueueTypeOK' /\ MessagesStay /\ \A k \in MsgIds : Sent(k)' => Sent(k)
  BY <1>1, <1>2, HandOutTyped
<1>4. /\ OrdersTypeOK' /\ OrdersStay /\ FaultsTypeOK'
      /\ UNCHANGED <<cur, shutdown, placedMails, paidMails>> /\ WGoTo(w, "next")
  BY FaultTyped DEF Receive, Typed, TypeOK, OrdersTypeOK, OrdersStay, Exists
<1>5. \A m \in B : m \in MsgIds /\ Sent(m) /\ queue[m].receives + 1 \in 0 .. MaxReceive
  BY <1>1, SqsAssumption DEF Receivable, QueueTypeOK, Message, Sent
<1>6. ReceiptsOf(B) \in SUBSET Receipt /\ \A r \in ReceiptsOf(B) : r.msg \in B
  BY <1>5 DEF ReceiptsOf, Receipt
<1>7. WorkerTypeOK'
  BY <1>1, <1>2, <1>4, <1>6 DEF WorkerTypeOK, WGoTo, Pcs
<1>8. batch'[w] = ReceiptsOf(B) /\ wpc'[w] = "next"
  BY <1>1, <1>2, <1>4 DEF WorkerTypeOK, WGoTo
<1>9. \A r \in batch'[w] : Sent(r.msg)'
  BY <1>3, <1>5, <1>6, <1>8 DEF MessagesStay
<1>10. WorkerRefers(w)' BY <1>8, <1>9 DEF WorkerRefers, Handling
<1>11. \A v \in Workers \ {w} :
          wpc'[v] = wpc[v] /\ batch'[v] = batch[v] /\ cur'[v] = cur[v]
  BY <1>1, <1>2, <1>4 DEF WGoTo, WorkerTypeOK
<1>12. QED BY <1>3, <1>4, <1>7, <1>10, <1>11, WorkerFrame

(* The message picked is one of the batch, and goes where its body says. *)
LEMMA PickTyped ==
    ASSUME Typed, NEW w \in Workers, Pick(w)
    PROVE  WorkingKeeps
<1>1. WorkerTypeOK /\ QueueTypeOK /\ WorkerRefers(w)
  BY DEF Typed, TypeOK, WellFormed, WorkersRefer
<1>2. PICK r \in batch[w] :
         /\ batch' = [batch EXCEPT ![w] = @ \ {r}]
         /\ WGoTo(w, AfterPick(queue[r.msg].type))
         /\ cur' = [cur EXCEPT ![w] = IF queue[r.msg].type = "NIL" THEN NoReceipt ELSE r]
  BY DEF Pick
<1>3. /\ UNCHANGED <<orders, queue, shutdown, placedMails, paidMails>>
      /\ OrdersTypeOK' /\ OrdersStay /\ FaultsTypeOK'
  BY DEF Pick, Typed, TypeOK, OrdersTypeOK, OrdersStay, Exists, FaultsTypeOK
<1>4. QueueTypeOK' /\ MessagesStay /\ \A k \in MsgIds : Sent(k)' => Sent(k)
  BY <1>1, <1>3, QueueUnchanged
<1>5. r \in Receipt /\ r.msg \in MsgIds /\ Sent(r.msg)
      /\ queue[r.msg].type \in Events \cup ForeignBodies
  BY <1>1 DEF WorkerTypeOK, Receipt, WorkerRefers, QueueTypeOK, Message
<1>6. /\ AfterPick(queue[r.msg].type) \in {"load", "next", "delete"}
      /\ AfterPick(queue[r.msg].type) = "load" => queue[r.msg].type \in Events
      /\ AfterPick(queue[r.msg].type) # "next" => queue[r.msg].type # "NIL"
  <2>1. CASE queue[r.msg].type \in Events BY <2>1 DEF AfterPick, Events
  <2>2. CASE queue[r.msg].type = "NIL" BY <2>2 DEF AfterPick, Events
  <2>3. CASE queue[r.msg].type \in {"MALFORMED", "UNKNOWN"}
    BY <2>3 DEF AfterPick, Events
  <2>4. QED BY <1>5, <2>1, <2>2, <2>3 DEF ForeignBodies
<1>7. WorkerTypeOK'
  <2>1. wpc' \in [Workers -> Pcs] BY <1>1, <1>2, <1>6 DEF WorkerTypeOK, WGoTo, Pcs
  <2>2. batch' \in [Workers -> SUBSET Receipt] BY <1>1, <1>2 DEF WorkerTypeOK
  <2>3. cur' \in [Workers -> Receipt \cup {NoReceipt}] BY <1>1, <1>2, <1>5 DEF WorkerTypeOK
  <2>4. QED BY <1>1, <1>3, <2>1, <2>2, <2>3 DEF WorkerTypeOK
<1>8. /\ batch'[w] \subseteq batch[w]
      /\ wpc'[w] = AfterPick(queue[r.msg].type)
      /\ cur'[w] = IF queue[r.msg].type = "NIL" THEN NoReceipt ELSE r
  BY <1>1, <1>2 DEF WorkerTypeOK, WGoTo
<1>9. WorkerRefers(w)'
  <2>1. \A s \in batch'[w] : Sent(s.msg)'
    BY <1>1, <1>3, <1>8 DEF WorkerRefers, Sent
  <2>2. wpc'[w] # "next" => cur'[w] = r BY <1>6, <1>8
  <2>3. Sent(r.msg)' /\ queue'[r.msg].type = queue[r.msg].type
    BY <1>3, <1>5 DEF Sent
  <2>4. QED BY <1>5, <1>6, <1>8, <2>1, <2>2, <2>3 DEF WorkerRefers, Handling, CurType, Sent
<1>10. \A v \in Workers \ {w} :
          wpc'[v] = wpc[v] /\ batch'[v] = batch[v] /\ cur'[v] = cur[v]
  BY <1>1, <1>2 DEF WGoTo, WorkerTypeOK
<1>11. QED BY <1>3, <1>4, <1>7, <1>9, <1>10, WorkerFrame

(* The steps of a handler: the message at hand is about an order.          *)
LEMMA HandleTyped ==
    ASSUME Typed, NEW w \in Workers, Load(w) \/ Confirm(w) \/ Mail(w)
    PROVE  WorkingKeeps
<1>1. WorkerTypeOK /\ QueueTypeOK /\ WorkerRefers(w) /\ MessagesRefer /\ OrdersTypeOK
  BY DEF Typed, TypeOK, WellFormed, WorkersRefer, OrdersTypeOK
<1>2. /\ wpc[w] \in {"load", "confirm", "mail"}
      /\ UNCHANGED <<batch, shutdown, queue>>
  BY DEF Load, Confirm, Mail
<1>3. FaultsTypeOK'
  BY FaultTyped DEF Typed, TypeOK, Load, Confirm, Mail
<1>4. QueueTypeOK' /\ MessagesStay /\ \A k \in MsgIds : Sent(k)' => Sent(k)
  BY <1>1, <1>2, QueueUnchanged
<1>5. /\ cur[w] \in Receipt /\ cur[w].msg \in MsgIds /\ Sent(cur[w].msg)
      /\ CurType(w) \in Events /\ IsOrder(CurOrder(w))
  BY <1>1, <1>2 DEF WorkerRefers, Handling, Receipt, CurType, CurOrder, MessagesRefer
<1>6. OrdersTypeOK' /\ OrdersStay
  <2>1. UNCHANGED orders \/ SetConfirmed(CurOrder(w)) BY DEF Load, Confirm, Mail
  <2>2. CASE UNCHANGED orders BY <1>1, <2>2 DEF OrdersTypeOK, OrdersStay, Exists
  <2>3. CASE SetConfirmed(CurOrder(w)) BY <1>1, <1>5, <2>3, UpdateTyped
  <2>4. QED BY <2>1, <2>2, <2>3
<1>7. \/ (\E pc \in {"confirm", "mail", "delete"} : WGoTo(w, pc)) /\ UNCHANGED cur
      \/ DoneWith(w)
  BY DEF Load, Confirm, Mail, FirstStep, HandlerFails
<1>8. placedMails' \in SUBSET OrderIds /\ paidMails' \in [OrderIds -> [Workers -> Nat]]
  <2>1. \/ UNCHANGED <<placedMails, paidMails>>
        \/ SendEmail(w)
    BY DEF Load, Confirm, Mail
  <2>2. CASE UNCHANGED <<placedMails, paidMails>> BY <1>1, <2>2 DEF WorkerTypeOK
  <2>3. CASE SendEmail(w)
    <3>1. CurOrder(w) \in OrderIds BY <1>5 DEF IsOrder
    <3>2. paidMails[CurOrder(w)][w] + 1 \in Nat
      BY <1>1, <3>1 DEF WorkerTypeOK
    <3>3. [paidMails[CurOrder(w)] EXCEPT ![w] = @ + 1] \in [Workers -> Nat]
      BY <1>1, <3>1, <3>2 DEF WorkerTypeOK
    <3>4. \/ UNCHANGED paidMails
          \/ paidMails' = [paidMails EXCEPT ![CurOrder(w)] =
                               [paidMails[CurOrder(w)] EXCEPT ![w] = @ + 1]]
      BY <1>1, <2>3, <3>1 DEF WorkerTypeOK, SendEmail
    <3>5. paidMails' \in [OrderIds -> [Workers -> Nat]]
      BY <1>1, <3>1, <3>3, <3>4 DEF WorkerTypeOK
    <3>6. placedMails' \in SUBSET OrderIds
      BY <1>1, <2>3, <3>1 DEF WorkerTypeOK, SendEmail
    <3>7. QED BY <3>5, <3>6
  <2>4. QED BY <2>1, <2>2, <2>3
<1>9. /\ wpc' \in [Workers -> Pcs]
      /\ cur' \in [Workers -> Receipt \cup {NoReceipt}]
  BY <1>1, <1>7 DEF WorkerTypeOK, WGoTo, DoneWith, Pcs
<1>10. WorkerTypeOK' BY <1>1, <1>2, <1>8, <1>9 DEF WorkerTypeOK
<1>11. WorkerRefers(w)'
  BY <1>1, <1>2, <1>5, <1>7
     DEF WorkerTypeOK, WGoTo, DoneWith, WorkerRefers, Handling, CurType, Sent
<1>12. \A v \in Workers \ {w} :
          wpc'[v] = wpc[v] /\ batch'[v] = batch[v] /\ cur'[v] = cur[v]
  BY <1>1, <1>2, <1>7 DEF WGoTo, DoneWith, WorkerTypeOK
<1>13. QED BY <1>3, <1>4, <1>6, <1>10, <1>11, <1>12, WorkerFrame

LEMMA DeleteStepTyped ==
    ASSUME Typed, NEW w \in Workers, Delete(w)
    PROVE  WorkingKeeps
<1>1. WorkerTypeOK /\ QueueTypeOK /\ WorkerRefers(w)
  BY DEF Typed, TypeOK, WellFormed, WorkersRefer
<1>2. cur[w] \in Receipt /\ Sent(cur[w].msg)
  BY <1>1 DEF Delete, WorkerRefers
<1>3. /\ OrdersTypeOK' /\ OrdersStay /\ FaultsTypeOK' /\ DoneWith(w)
      /\ UNCHANGED <<batch, shutdown, placedMails, paidMails>>
  BY FaultTyped DEF Delete, Typed, TypeOK, OrdersTypeOK, OrdersStay, Exists
<1>4. QueueTypeOK' /\ MessagesStay /\ \A k \in MsgIds : Sent(k)' => Sent(k)
  BY <1>1, <1>2, QueueUnchanged, DeleteTyped DEF Delete
<1>5. WorkerTypeOK'
  BY <1>1, <1>3 DEF WorkerTypeOK, DoneWith, WGoTo, Pcs
<1>6. \A r \in batch[w] : r.msg \in MsgIds BY <1>1 DEF WorkerTypeOK, Receipt
<1>7. WorkerRefers(w)'
  BY <1>1, <1>3, <1>4, <1>6
     DEF WorkerTypeOK, DoneWith, WGoTo, WorkerRefers, Handling, MessagesStay
<1>8. \A v \in Workers \ {w} :
          wpc'[v] = wpc[v] /\ batch'[v] = batch[v] /\ cur'[v] = cur[v]
  BY <1>1, <1>3 DEF WGoTo, DoneWith, WorkerTypeOK
<1>9. QED BY <1>3, <1>4, <1>5, <1>7, <1>8, WorkerFrame

LEMMA SignalTyped ==
    ASSUME Typed, NEW w \in Workers, Signal(w)
    PROVE  WorkingKeeps
<1>1. WorkerTypeOK /\ QueueTypeOK /\ WorkerRefers(w)
  BY DEF Typed, TypeOK, WellFormed, WorkersRefer
<1>2. OrdersTypeOK' /\ OrdersStay /\ FaultsTypeOK' /\ UNCHANGED queue
  BY FaultTyped DEF Signal, Typed, TypeOK, OrdersTypeOK, OrdersStay, Exists
<1>3. QueueTypeOK' /\ MessagesStay /\ \A k \in MsgIds : Sent(k)' => Sent(k)
  BY <1>1, <1>2, QueueUnchanged
<1>4. WorkerTypeOK' BY <1>1 DEF Signal, WorkerTypeOK
<1>5. WorkerRefers(w)' BY <1>1, <1>3, WorkerKept DEF Signal
<1>6. QED BY <1>2, <1>3, <1>4, <1>5, WorkerFrame DEF Signal

(* Every step of a worker keeps the types and references of the system. *)
LEMMA WorkingTyped ==
    ASSUME Typed, NEW w \in Workers, Working(w)
    PROVE  Typed' /\ OrdersStay /\ MessagesStay
<1>1. WorkingKeeps
  BY RestTyped, ReceiveTyped, PickTyped, HandleTyped, DeleteStepTyped, SignalTyped
     DEF Working, WorkerStep
<1>2. UNCHANGED <<req, rows, links, pay, hook, checkoutVars, paymentVars>>
  BY DEF Working, checkoutVars, paymentVars
<1>3. TypeOK' /\ RowsRefer'
  BY <1>1, <1>2, CheckoutTypesKept, PaymentTypesKept DEF Typed, TypeOK, WellFormed,
     WorkingKeeps, OrdersTypeOK
<1>4. WellFormed'
  BY <1>1, <1>2, <1>3, RequestsKept, LinesKept, LinksKept, PayReqsKept, HooksKept
     DEF Typed, WellFormed, WorkingKeeps
<1>5. QED BY <1>1, <1>3, <1>4 DEF Typed, WorkingKeeps

(* The steps of SQS itself, a body nobody published included. *)
LEMMA QueueingTyped ==
    ASSUME Typed, Queueing
    PROVE  Typed' /\ OrdersStay /\ MessagesStay
<1>1. QueueTypeOK /\ MessagesRefer BY DEF Typed, TypeOK, WellFormed
<1>2. /\ UNCHANGED <<orders, req, rows, links, pay, hook, wpc, batch, cur,
                     checkoutVars, paymentVars, workerVars>>
      /\ QueueStep
  BY DEF Queueing, checkoutVars, paymentVars, workerVars
<1>3. OrdersStay BY <1>2 DEF OrdersStay, Exists
<1>4. FaultsTypeOK'
  BY <1>2, FaultTyped DEF QueueStep, VisibilityTimeout, Redrive, ForeignMessage, Typed, TypeOK
<1>5. QueueTypeOK' /\ MessagesStay /\ MessagesRefer'
  <2>1. ASSUME NEW m \in MsgIds, VisibilityTimeout(m) \/ Redrive(m)
        PROVE  QueueTypeOK' /\ MessagesStay /\ \A k \in MsgIds : Sent(k)' => Sent(k)
    BY <1>1, <2>1 DEF VisibilityTimeout, Redrive, QueueTypeOK, Message, MessagesStay, Sent
  <2>2. ASSUME NEW body \in ForeignBodies, ForeignMessage(body)
        PROVE  /\ QueueTypeOK' /\ MessagesStay
               /\ \A k \in MsgIds : Sent(k)' => Sent(k) \/ queue'[k].type = body
    BY <1>1, <2>2, EnqueueTyped DEF ForeignMessage
  <2>3. ForeignBodies \cap Events = {} BY DEF ForeignBodies, Events
  <2>4. ASSUME NEW body \in ForeignBodies, ForeignMessage(body)
        PROVE  MessagesRefer'
    BY <1>1, <1>3, <2>2, <2>3, <2>4 DEF MessagesRefer, MessagesStay, OrdersStay, IsOrder
  <2>5. QED BY <1>1, <1>2, <1>3, <2>1, <2>2, <2>4, NothingSent DEF QueueStep
<1>6. TypeOK' /\ RowsRefer'
  BY <1>2, <1>4, <1>5, CheckoutTypesKept, PaymentTypesKept, WorkerTypesKept
     DEF Typed, TypeOK, WellFormed
<1>7. WellFormed'
  BY <1>2, <1>3, <1>5, <1>6, RequestsKept, LinesKept, LinksKept, PayReqsKept, HooksKept, WorkersKept
     DEF Typed, TypeOK, WellFormed
<1>8. QED BY <1>3, <1>5, <1>6, <1>7 DEF Typed

(* The API starts again with no request in flight. *)
LEMMA ApiCrashTyped ==
    ASSUME Typed, ApiCrash
    PROVE  Typed' /\ OrdersStay /\ MessagesStay
<1>1. /\ UNCHANGED <<products, carts, rows, late, links, orders, queue, wpc, batch, cur,
                     workerVars>>
      /\ req' = [t \in Tabs |-> IdleReq]
      /\ pay' = [t \in PayReqs |-> IdlePay]
      /\ hook' = [h \in Hooks |-> IdleHook]
      /\ Fault("crash")
  BY DEF ApiCrash, DropRequests, DropPayments, workerVars
<1>2. QueueTypeOK' /\ OrdersTypeOK' /\ MessagesRefer' /\ OrdersStay /\ MessagesStay
  BY <1>1, TabOnly
<1>3. FaultsTypeOK' BY <1>1, FaultTyped DEF Typed, TypeOK
<1>4. CheckoutTypeOK' /\ RowsRefer'
  BY <1>1 DEF Typed, TypeOK, WellFormed, CheckoutTypeOK, CatalogTypeOK, RowsRefer, IdleReq,
     Request
<1>5. PaymentTypeOK'
  BY <1>1 DEF Typed, TypeOK, PaymentTypeOK, IdlePay, PayReq, IdleHook, HookReq
<1>6. RequestsRefer' /\ PayReqsRefer' /\ HooksRefer' /\ LinesFinite'
  BY <1>1, FS_EmptySet DEF RequestsRefer, PayReqsRefer, HooksRefer, LinesFinite, IdleReq,
     IdlePay, IdleHook
<1>7. WorkerTypeOK' /\ WorkersRefer' /\ LinksRefer'
  BY <1>1, <1>2, WorkerTypesKept, WorkersKept, LinksKept DEF Typed, TypeOK, WellFormed
<1>8. QED
  BY <1>2, <1>3, <1>4, <1>5, <1>6, <1>7 DEF Typed, TypeOK, WellFormed, OrdersTypeOK

LEMMA InitTyped ==
    ASSUME Init
    PROVE  Typed
<1>2. FaultsTypeOK BY FaultsAssumption DEF Init, FaultsInit, FaultsTypeOK
<1>3. QueueTypeOK
  <2>1. 0 \in 0 .. MaxReceive BY SqsAssumption
  <2>2. QED BY <2>1 DEF Init, QueueInit, QueueTypeOK, Message, ForeignBodies
<1>4. CheckoutTypeOK
  BY CatalogAssumption DEF Init, CheckoutInit, CatalogInit, CheckoutTypeOK, CatalogTypeOK,
     Listing, UnusedRow, CartRow, IdleReq, Request
<1>5. PaymentTypeOK
  BY DEF Init, PaymentInit, PaymentTypeOK, NoLink, PaymentLink, IdlePay, PayReq, IdleHook,
     HookReq
<1>6. WorkerTypeOK BY DEF Init, WorkerInit, WorkerTypeOK, Pcs
<1>7. TypeOK BY <1>2, <1>3, <1>4, <1>5, <1>6 DEF Init, OrdersInit, TypeOK
<1>8. RowsRefer /\ RequestsRefer /\ LinesFinite
  BY FS_EmptySet DEF Init, CheckoutInit, RowsRefer, RequestsRefer, LinesFinite, UnusedRow,
     IdleReq
<1>9. LinksRefer /\ PayReqsRefer /\ HooksRefer
  BY DEF Init, PaymentInit, LinksRefer, PayReqsRefer, HooksRefer, NoLink, IdlePay, IdleHook
<1>10. MessagesRefer BY DEF Init, QueueInit, MessagesRefer, Sent
<1>11. WorkersRefer BY DEF Init, WorkerInit, WorkersRefer, WorkerRefers, Handling
<1>12. QED BY <1>7, <1>8, <1>9, <1>10, <1>11 DEF Typed, WellFormed

(* A step that changes nothing changes nothing. *)
LEMMA StutterTyped ==
    ASSUME Typed, UNCHANGED vars
    PROVE  Typed' /\ OrdersStay /\ MessagesStay
<1>1. UNCHANGED <<orders, queue, faults, req, links, pay, hook, wpc, batch, cur,
                 checkoutVars, paymentVars, workerVars>>
  BY DEF vars, checkoutVars, paymentVars, workerVars
<1>2. QueueTypeOK' /\ OrdersTypeOK' /\ MessagesRefer' /\ OrdersStay /\ MessagesStay
  BY <1>1, TabOnly
<1>3. TypeOK' /\ RowsRefer'
  BY <1>1, <1>2, CheckoutTypesKept, PaymentTypesKept, WorkerTypesKept
     DEF Typed, TypeOK, WellFormed, FaultsTypeOK, OrdersTypeOK
<1>4. QED
  BY <1>1, <1>2, <1>3, RequestsKept, LinesKept, LinksKept, PayReqsKept, HooksKept, WorkersKept
     DEF Typed, TypeOK, WellFormed

LEMMA StepTyped == Typed /\ [Next]_vars => Typed' /\ OrdersStay /\ MessagesStay
BY ShoppingTyped, PayingTyped, WorkingTyped, QueueingTyped, ApiCrashTyped, StutterTyped
   DEF Next

(* Every reference a request, a message or a worker follows without a look *)
(* (a cart row's product, the order of a link, of a message, of a webhook) *)
(* leads to a row of the right type, in every reachable state.             *)
THEOREM Typing == Spec => []Typed
<1>1. Typed /\ [Next]_vars => Typed' BY StepTyped
<1>2. QED BY <1>1, InitTyped, PTL DEF Spec

(* The variables of every component keep their types. *)
THEOREM TypeCorrect == Spec => []TypeOK
<1>1. Typed => TypeOK BY DEF Typed
<1>2. QED BY <1>1, Typing, PTL

(* No order is removed, and no published message changes its body. *)
THEOREM NothingErased == Spec => [][OrdersStay /\ MessagesStay]_vars
<1>1. Typed /\ [Next]_vars => [OrdersStay /\ MessagesStay]_vars BY StepTyped
<1>2. QED BY <1>1, Typing, PTL DEF Spec
=============================================================================
