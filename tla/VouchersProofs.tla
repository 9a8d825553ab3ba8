---------------------------- MODULE VouchersProofs ----------------------------
(***************************************************************************)
(* Theorems about Vouchers, for any orders, codes, customers and limits.   *)
(* IInv adds to the invariants what an order says of itself and that a     *)
(* code that does not exist yet is used by nobody.  Every step of an order *)
(* changes the uses of that order only: OrderChange says when such a step  *)
(* keeps IInv, and the rest is to work out, for each operation, what the   *)
(* order holds afterwards.                                                 *)
(***************************************************************************)
EXTENDS Vouchers, FiniteSetTheorems, TLAPS

OrderSound(r) ==
    /\ r.status = "none" => r.voucher = None /\ r.payment = "none"
    /\ r.used <=> r.payment = "paid" /\ r.voucher # None

OrdersSound == \A o \in Orders : OrderSound(order[o])

UncreatedUnused ==
    \A v \in Vouchers : voucher[v].status = "none" =>
        \A o \in Orders : usage[v][o] \notin {"reserved", "used"}

IInv == TypeOK /\ OrdersSound /\ UncreatedUnused /\ CountersMatchUsages /\ DiscountBacked

(* What an order that has become r holds of a code.                        *)
Carries(r, v) == r.status \in {"open", "completed"} /\ r.voucher = v

Due(r, v) ==
    IF ~Carries(r, v) THEN {"none", "restored"}
    ELSE IF r.payment = "paid" THEN {"used"} ELSE {"reserved"}

(* A voucher whose counters may be negative.                               *)
Countable ==
    [status : {"none", "active", "inactive", "expired", "deleted"},
     owner : Customers \cup {None}, holder : Orders \cup {None},
     limit : 0 .. MaxLimit, perUser : 1 .. MaxLimit, used : Int, reserved : Int]

Count(status, s) == IF status = s THEN 1 ELSE 0

-----------------------------------------------------------------------------
(* Counting.                                                               *)

(* An element more, or less, in a finite set.                              *)
LEMMA OneMore ==
  ASSUME NEW S, IsFiniteSet(S), NEW x, x \notin S
  PROVE  /\ Cardinality(S) \in Nat
         /\ Cardinality(S \cup {x}) = Cardinality(S) + 1
BY FS_AddElement, FS_CardinalityType

LEMMA OneLess ==
  ASSUME NEW S, IsFiniteSet(S), NEW x \in S
  PROVE  /\ Cardinality(S) \in Nat
         /\ Cardinality(S \ {x}) = Cardinality(S) - 1
         /\ Cardinality(S) >= 1
<1>1. /\ Cardinality(S) \in Nat
      /\ Cardinality(S \ {x}) = Cardinality(S) - 1
      /\ Cardinality(S \ {x}) \in Nat
  BY FS_RemoveElement, FS_CardinalityType
<1> QED BY <1>1

LEMMA Finite == ASSUME NEW v, NEW s PROVE IsFiniteSet(With(v, s)) /\ Cardinality(With(v, s)) \in Nat
<1>1. With(v, s) \subseteq Orders BY DEF With
<1> QED BY <1>1, FS_Subset, FS_CardinalityType, VouchersAssumption

(* The uses of one state after one order changed its own.                  *)
LEMMA UsesCounted ==
  ASSUME TypeOK, NEW v \in Vouchers, NEW o \in Orders, NEW s \in UsageStatuses,
         usage'[v] = [usage[v] EXCEPT ![o] = s], NEW k
  PROVE  /\ Cardinality(With(v, k)') = Cardinality(With(v, k)) - Count(usage[v][o], k) + Count(s, k)
         /\ Cardinality(With(v, k)') \in Nat
<1>1. \A x \in Orders : usage'[v][x] = IF x = o THEN s ELSE usage[v][x] BY DEF TypeOK
<1>2. With(v, k)' = {x \in Orders : IF x = o THEN s = k ELSE usage[v][x] = k} BY <1>1 DEF With
<1>3. IsFiniteSet(With(v, k)) /\ Cardinality(With(v, k)) \in Nat BY Finite
<1>4. CASE usage[v][o] = k /\ s = k
  <2>1. With(v, k)' = With(v, k) BY <1>2, <1>4 DEF With
  <2> QED BY <1>3, <1>4, <2>1 DEF Count
<1>5. CASE usage[v][o] = k /\ s # k
  <2>1. With(v, k)' = With(v, k) \ {o} /\ o \in With(v, k) BY <1>2, <1>5 DEF With
  <2> QED BY <1>3, <1>5, <2>1, OneLess DEF Count
<1>6. CASE usage[v][o] # k /\ s = k
  <2>1. With(v, k)' = With(v, k) \cup {o} /\ o \notin With(v, k) BY <1>2, <1>6 DEF With
  <2> QED BY <1>3, <1>6, <2>1, OneMore DEF Count
<1>7. CASE usage[v][o] # k /\ s # k
  <2>1. With(v, k)' = With(v, k) BY <1>2, <1>7 DEF With
  <2> QED BY <1>3, <1>7, <2>1 DEF Count
<1> QED BY <1>4, <1>5, <1>6, <1>7

(* A use that an order holds is counted.                                   *)
LEMMA HeldCounted ==
  ASSUME IInv, NEW v \in Vouchers, NEW o \in Orders
  PROVE  /\ usage[v][o] = "reserved" => voucher[v].reserved >= 1
         /\ usage[v][o] = "used" => voucher[v].used >= 1
<1>1. \A s : IsFiniteSet(With(v, s)) BY Finite
<1>2. \A s : usage[v][o] = s => o \in With(v, s) BY DEF With
<1>3. \A s : usage[v][o] = s => Cardinality(With(v, s)) >= 1 BY <1>1, <1>2, OneLess
<1> QED BY <1>3 DEF IInv, CountersMatchUsages

(* The code that does not exist counts nothing.                            *)
LEMMA UncreatedCounts ==
  ASSUME IInv, NEW v \in Vouchers, voucher[v].status = "none"
  PROVE  voucher[v].reserved = 0 /\ voucher[v].used = 0
<1>1. With(v, "reserved") = {} /\ With(v, "used") = {} BY DEF IInv, UncreatedUnused, With
<1> QED BY <1>1, FS_EmptySet DEF IInv, CountersMatchUsages

(* What an order holds is what it should.                                  *)
LEMMA HeldIsDue ==
  ASSUME IInv, NEW v \in Vouchers, NEW o \in Orders
  PROVE  /\ usage[v][o] \in Due(order[o], v)
         /\ Carries(order[o], v) /\ voucher[v].owner # None => voucher[v].holder = o
BY DEF IInv, TypeOK, UsageStatuses, DiscountBacked, Due, Carries, IsLive, IsPersonal

-----------------------------------------------------------------------------
(* The initial states.                                                     *)

LEMMA InitIInv == ASSUME Init PROVE IInv
<1>1. NoCode \in VoucherRecords BY VouchersAssumption DEF NoCode, VoucherRecords
<1>2. voucher \in [Vouchers -> VoucherRecords] BY <1>1 DEF Init
<1>3. usage \in [Vouchers -> [Orders -> UsageStatuses]] BY DEF Init, UsageStatuses
<1>4. order \in [Orders -> OrderRecords]
  <2>1. PICK customer \in [Orders -> Customers] :
           order = [o \in Orders |-> [status |-> "none", customer |-> customer[o],
                                      voucher |-> None, used |-> FALSE, payment |-> "none"]]
    BY DEF Init
  <2> QED BY <2>1 DEF OrderRecords
<1>5. TypeOK BY <1>2, <1>3, <1>4 DEF Init, Idle, AdminRecords, TypeOK
<1>6. \A o \in Orders : /\ order[o].status = "none" /\ order[o].voucher = None
                        /\ ~order[o].used /\ order[o].payment = "none"
  BY DEF Init
<1>7. OrdersSound BY <1>6 DEF OrdersSound, OrderSound
<1>8. UncreatedUnused BY DEF Init, UncreatedUnused
<1>9. CountersMatchUsages
  <2>1. \A v \in Vouchers : With(v, "reserved") = {} /\ With(v, "used") = {} BY DEF Init, With
  <2> QED BY <2>1, FS_EmptySet DEF Init, NoCode, CountersMatchUsages
<1>10. DiscountBacked BY <1>6 DEF Init, DiscountBacked, IsLive
<1> QED BY <1>5, <1>7, <1>8, <1>9, <1>10 DEF IInv

-----------------------------------------------------------------------------
(* Steps of an order.                                                      *)

(* The order becomes r and holds s[v] of each code: IInv stays if that is  *)
(* due, the counters follow and nobody else loses his personal code.       *)
LEMMA OrderChange ==
  ASSUME IInv, NEW o \in Orders, NEW r \in OrderRecords, NEW s \in [Vouchers -> UsageStatuses],
         order' = [order EXCEPT ![o] = r],
         usage' = [v \in Vouchers |-> [usage[v] EXCEPT ![o] = s[v]]],
         UNCHANGED admin,
         OrderSound(r),
         voucher' \in [Vouchers -> Countable],
         \A v \in Vouchers :
            /\ s[v] \in Due(r, v)
            /\ Carries(r, v) => voucher'[v].status # "none"
            /\ Carries(r, v) /\ voucher'[v].owner # None => voucher'[v].holder = o
            /\ voucher'[v].status = "none" => voucher[v].status = "none"
            /\ voucher'[v].reserved = voucher[v].reserved - Count(usage[v][o], "reserved")
                                      + Count(s[v], "reserved")
            /\ voucher'[v].used = voucher[v].used - Count(usage[v][o], "used") + Count(s[v], "used")
            /\ voucher'[v].owner = voucher[v].owner \/ voucher[v].status = "none"
            /\ voucher'[v].holder = voucher[v].holder
                 \/ voucher[v].holder \in {o, None}
                 \/ ~Carries(order[voucher[v].holder], v)
                 \/ voucher[v].owner = None
                 \/ voucher[v].status = "none"
  PROVE  IInv'
<1>1. \A v \in Vouchers : usage'[v] = [usage[v] EXCEPT ![o] = s[v]] OBVIOUS
<1>2. /\ voucher \in [Vouchers -> VoucherRecords]
      /\ usage \in [Vouchers -> [Orders -> UsageStatuses]]
      /\ order \in [Orders -> OrderRecords]
  BY DEF IInv, TypeOK
<1>3. \A v \in Vouchers, x \in Orders : usage'[v][x] = IF x = o THEN s[v] ELSE usage[v][x]
  BY <1>1, <1>2
<1>4. \A x \in Orders : order'[x] = IF x = o THEN r ELSE order[x] BY <1>2
<1>5. \A v \in Vouchers : s[v] \in UsageStatuses OBVIOUS
<1>6. CountersMatchUsages'
  <2> SUFFICES ASSUME NEW v \in Vouchers
               PROVE  /\ voucher'[v].reserved = Cardinality(With(v, "reserved")')
                      /\ voucher'[v].used = Cardinality(With(v, "used")')
    BY DEF CountersMatchUsages
  <2>1. /\ voucher[v].reserved = Cardinality(With(v, "reserved"))
        /\ voucher[v].used = Cardinality(With(v, "used"))
    BY DEF IInv, CountersMatchUsages
  <2>2. TypeOK BY DEF IInv
  <2>3. \A k : Cardinality(With(v, k)') = Cardinality(With(v, k)) - Count(usage[v][o], k) + Count(s[v], k)
    BY <1>1, <1>5, <2>2, UsesCounted
  <2> QED BY <2>1, <2>3
<1>7. \A v \in Vouchers : voucher'[v].reserved \in Nat /\ voucher'[v].used \in Nat
  <2> TAKE v \in Vouchers
  <2>1. TypeOK BY DEF IInv
  <2>2. \A k : Cardinality(With(v, k)') \in Nat BY <1>1, <1>5, <2>1, UsesCounted
  <2> QED BY <1>6, <2>2 DEF CountersMatchUsages
<1>8. TypeOK'
  <2>1. voucher' \in [Vouchers -> VoucherRecords] BY <1>7 DEF VoucherRecords, Countable
  <2>2. usage' \in [Vouchers -> [Orders -> UsageStatuses]] BY <1>2
  <2>3. order' \in [Orders -> OrderRecords] BY <1>2
  <2>4. admin' \in AdminRecords BY DEF IInv, TypeOK
  <2> QED BY <2>1, <2>2, <2>3, <2>4 DEF TypeOK
<1>9. OrdersSound' BY <1>4 DEF IInv, OrdersSound
<1>10. UncreatedUnused'
  <2> SUFFICES ASSUME NEW v \in Vouchers, voucher'[v].status = "none", NEW x \in Orders
               PROVE  usage'[v][x] \notin {"reserved", "used"}
    BY DEF UncreatedUnused
  <2>1. CASE x = o BY <1>3, <2>1 DEF Due
  <2>2. CASE x # o BY <1>3, <2>2 DEF IInv, UncreatedUnused
  <2> QED BY <2>1, <2>2
<1>11. \A v \in Vouchers, x \in Orders :
          /\ usage'[v][x] \in Due(order'[x], v)
          /\ Carries(order'[x], v) /\ voucher'[v].owner # None => voucher'[v].holder = x
  <2> TAKE v \in Vouchers, x \in Orders
  <2>1. CASE x = o BY <1>3, <1>4, <2>1
  <2>2. CASE x # o
    <3>1. usage[v][x] \in Due(order[x], v) BY HeldIsDue
    <3>2. Carries(order[x], v) => voucher[v].status # "none"
      BY <3>1 DEF IInv, UncreatedUnused, Due
    <3>3. Carries(order[x], v) /\ voucher[v].owner # None => voucher[v].holder = x BY HeldIsDue
    <3>4. x # None BY VouchersAssumption
    <3> QED BY <1>3, <1>4, <2>2, <3>1, <3>2, <3>3, <3>4
  <2> QED BY <2>1, <2>2
<1>12. DiscountBacked'
  <2>1. \A x \in Orders : order'[x].used => order'[x].payment = "paid"
    BY <1>9 DEF OrdersSound, OrderSound
  <2> QED BY <1>11, <2>1 DEF DiscountBacked, IsLive, IsPersonal, Due, Carries
<1> QED BY <1>6, <1>8, <1>9, <1>10, <1>12 DEF IInv

(* A step that keeps what the order holds and carries.                     *)
LEMMA OrderQuiet ==
  ASSUME IInv, NEW o \in Orders, NEW r \in OrderRecords,
         order' = [order EXCEPT ![o] = r], UNCHANGED <<voucher, usage, admin>>,
         OrderSound(r), r.voucher = order[o].voucher,
         \A v \in Vouchers :
            /\ Carries(r, v) <=> Carries(order[o], v)
            /\ Carries(r, v) => (r.payment = "paid" <=> order[o].payment = "paid")
  PROVE  IInv'
<1> DEFINE s == [v \in Vouchers |-> usage[v][o]]
<1>1. /\ voucher \in [Vouchers -> VoucherRecords]
      /\ usage \in [Vouchers -> [Orders -> UsageStatuses]]
      /\ order \in [Orders -> OrderRecords]
  BY DEF IInv, TypeOK
<1>2. s \in [Vouchers -> UsageStatuses] BY <1>1
<1>3. usage' = [v \in Vouchers |-> [usage[v] EXCEPT ![o] = s[v]]] BY <1>1
<1>4. \A v \in Vouchers : s[v] = usage[v][o] OBVIOUS
<1> HIDE DEF s
<1>5. \A v \in Vouchers : /\ s[v] \in Due(order[o], v)
                          /\ Carries(order[o], v) /\ voucher[v].owner # None => voucher[v].holder = o
  BY <1>4, HeldIsDue
<1>6. \A v \in Vouchers : Due(r, v) = Due(order[o], v) /\ (Carries(r, v) <=> Carries(order[o], v))
  BY DEF Due
<1>7. \A v \in Vouchers : Carries(r, v) => voucher[v].status # "none"
  BY <1>4, <1>5, <1>6 DEF IInv, UncreatedUnused, Due
<1>8. \A v \in Vouchers : /\ voucher[v].reserved \in Int /\ voucher[v].used \in Int
                          /\ Count(usage[v][o], "reserved") \in Int
                          /\ Count(usage[v][o], "used") \in Int
  BY <1>1 DEF VoucherRecords, Count
<1>9. voucher' \in [Vouchers -> Countable] BY <1>1 DEF VoucherRecords, Countable
<1>10. \A v \in Vouchers :
          /\ voucher'[v].reserved = voucher[v].reserved - Count(usage[v][o], "reserved")
                                    + Count(s[v], "reserved")
          /\ voucher'[v].used = voucher[v].used - Count(usage[v][o], "used") + Count(s[v], "used")
  BY <1>4, <1>8
<1>11. \A v \in Vouchers :
          /\ s[v] \in Due(r, v)
          /\ Carries(r, v) /\ voucher'[v].owner # None => voucher'[v].holder = o
          /\ Carries(r, v) => voucher'[v].status # "none"
          /\ voucher'[v] = voucher[v]
  BY <1>5, <1>6, <1>7
<1>12. UNCHANGED admin OBVIOUS
<1> QED BY <1>2, <1>3, <1>9, <1>10, <1>11, <1>12, OrderChange

LEMMA CreateOrderStep ==
  ASSUME IInv, NEW o \in Orders, CreateOrder(o)
  PROVE  IInv'
<1> DEFINE r == [order[o] EXCEPT !.status = "open"]
<1>1. order[o] \in OrderRecords /\ order \in [Orders -> OrderRecords] BY DEF IInv, TypeOK
<1>2. r \in OrderRecords /\ order' = [order EXCEPT ![o] = r] BY <1>1 DEF OrderRecords, CreateOrder
<1>3. OrderSound(order[o]) BY DEF IInv, OrdersSound
<1>4. OrderSound(r) /\ r.voucher = order[o].voucher /\ r.voucher = None
  BY <1>1, <1>3 DEF OrderSound, OrderRecords, CreateOrder
<1> HIDE DEF r
<1>5. UNCHANGED <<voucher, usage, admin>> BY DEF CreateOrder
<1>6. \A v \in Vouchers : ~Carries(r, v) /\ ~Carries(order[o], v)
  BY <1>4, VouchersAssumption DEF Carries
<1> QED BY <1>2, <1>4, <1>5, <1>6, OrderQuiet

LEMMA PaymentStep ==
  ASSUME IInv, NEW o \in Orders,
         ReserveQr(o) \/ ReserveCash(o) \/ FailQr(o) \/ CompleteOrder(o)
  PROVE  IInv'
<1>1. order[o] \in OrderRecords /\ order \in [Orders -> OrderRecords] BY DEF IInv, TypeOK
<1>2. OrderSound(order[o]) BY DEF IInv, OrdersSound
<1>3. PICK r : /\ r \in OrderRecords /\ order' = [order EXCEPT ![o] = r]
               /\ OrderSound(r) /\ r.voucher = order[o].voucher
               /\ \A v \in Vouchers :
                     /\ Carries(r, v) <=> Carries(order[o], v)
                     /\ Carries(r, v) => (r.payment = "paid" <=> order[o].payment = "paid")
  <2>1. CASE CompleteOrder(o)
    <3> DEFINE r == [order[o] EXCEPT !.status = "completed"]
    <3>1. r \in OrderRecords /\ order' = [order EXCEPT ![o] = r]
      BY <1>1, <2>1 DEF OrderRecords, CompleteOrder
    <3>2. OrderSound(r) BY <1>1, <1>2, <2>1 DEF OrderSound, OrderRecords, CompleteOrder
    <3>3. /\ r.voucher = order[o].voucher /\ r.payment = order[o].payment
          /\ \A v \in Vouchers : Carries(r, v) <=> Carries(order[o], v)
      BY <1>1, <2>1 DEF Carries, OrderRecords, CompleteOrder
    <3> HIDE DEF r
    <3> QED BY <3>1, <3>2, <3>3
  <2>2. CASE ~CompleteOrder(o)
    <3>1. PICK m \in {"none", "qr", "cash"} : order' = [order EXCEPT ![o].payment = m]
      BY <2>2 DEF ReserveQr, ReserveCash, FailQr
    <3>2. order[o].payment # "paid" /\ order[o].status = "open"
      BY <2>2 DEF ReserveQr, ReserveCash, FailQr
    <3> DEFINE r == [order[o] EXCEPT !.payment = m]
    <3>3. r \in OrderRecords /\ order' = [order EXCEPT ![o] = r] BY <1>1, <3>1 DEF OrderRecords
    <3>4. OrderSound(r) BY <1>1, <1>2, <3>2 DEF OrderSound, OrderRecords
    <3>5. /\ r.voucher = order[o].voucher /\ r.status = order[o].status /\ r.payment # "paid"
          /\ \A v \in Vouchers : Carries(r, v) <=> Carries(order[o], v)
      BY <1>1 DEF Carries, OrderRecords
    <3> HIDE DEF r
    <3> QED BY <3>2, <3>3, <3>4, <3>5
  <2> QED BY <2>1, <2>2
<1>4. UNCHANGED <<voucher, usage, admin>> BY DEF ReserveQr, ReserveCash, FailQr, CompleteOrder
<1> QED BY <1>3, <1>4, OrderQuiet

-----------------------------------------------------------------------------
(* Reservations.                                                           *)

(* A code that may be reserved is held by no other order.                  *)
LEMMA MayReserveFree ==
  ASSUME IInv, NEW o \in Orders, NEW v \in Vouchers, MayReserve(v, o)
  PROVE  /\ voucher[v].status = "active"
         /\ usage[v][o] # "used"
         /\ \/ voucher[v].owner = None
            \/ voucher[v].holder \in {o, None}
            \/ ~Carries(order[voucher[v].holder], v)
BY DEF MayReserve, IsHeldElsewhere, IsLive, Carries, IsPersonal

(* An order without a code gets one.                                       *)
LEMMA ReserveStep ==
  ASSUME IInv, NEW o \in Orders, NEW v \in Vouchers, MayReserve(v, o), Reserve(v, o),
         NEW r \in OrderRecords, order' = [order EXCEPT ![o] = r], UNCHANGED admin,
         order[o].voucher = None, r.voucher = v, r.status = "open", r.payment = "none", ~r.used
  PROVE  IInv'
<1> DEFINE s == [w \in Vouchers |-> IF w = v THEN "reserved" ELSE usage[w][o]]
           code == [voucher[v] EXCEPT !.reserved = voucher[v].reserved + 1,
                                      !.holder = IF IsPersonal(v) THEN o ELSE voucher[v].holder]
<1>1. /\ voucher \in [Vouchers -> VoucherRecords]
      /\ usage \in [Vouchers -> [Orders -> UsageStatuses]]
      /\ order \in [Orders -> OrderRecords]
  BY DEF IInv, TypeOK
<1>2. v # None BY VouchersAssumption
<1>3. \A w \in Vouchers : usage[w][o] \in {"none", "restored"}
  BY <1>2, HeldIsDue, VouchersAssumption DEF Due, Carries
<1>4. voucher' = [voucher EXCEPT ![v] = code]
  BY <1>1, <1>3 DEF Reserve
<1>5. usage' = [usage EXCEPT ![v][o] = "reserved"] BY <1>3 DEF Reserve
<1>6. /\ code.status = voucher[v].status /\ code.owner = voucher[v].owner
      /\ code.reserved = voucher[v].reserved + 1 /\ code.used = voucher[v].used
      /\ code.holder = IF IsPersonal(v) THEN o ELSE voucher[v].holder
      /\ code \in Countable
  <2> DEFINE h == IF IsPersonal(v) THEN o ELSE voucher[v].holder
             n == voucher[v].reserved + 1
  <2>1. voucher[v] \in VoucherRecords BY <1>1
  <2>2. voucher[v].reserved \in Nat /\ voucher[v].holder \in Orders \cup {None}
    BY <2>1 DEF VoucherRecords
  <2>3. h \in Orders \cup {None} /\ n \in Int BY <2>2 DEF IsPersonal
  <2>4. code = [voucher[v] EXCEPT !.reserved = n, !.holder = h] OBVIOUS
  <2> HIDE DEF h, n, code
  <2>5. code = [status |-> voucher[v].status, owner |-> voucher[v].owner, holder |-> h,
                limit |-> voucher[v].limit, perUser |-> voucher[v].perUser,
                used |-> voucher[v].used, reserved |-> n]
    BY <2>1, <2>4 DEF VoucherRecords
  <2>6. /\ code.status = voucher[v].status /\ code.owner = voucher[v].owner
        /\ code.reserved = n /\ code.used = voucher[v].used /\ code.holder = h
    BY <2>5
  <2>7. code \in Countable BY <2>1, <2>3, <2>5 DEF VoucherRecords, Countable
  <2> QED BY <2>6, <2>7 DEF h, n
<1> HIDE DEF code
<1>7. \A w \in Vouchers : voucher'[w] = IF w = v THEN code ELSE voucher[w] BY <1>1, <1>4
<1>8. voucher' \in [Vouchers -> Countable]
  <2>1. voucher \in [Vouchers -> Countable]
    BY <1>1 DEF VoucherRecords, Countable
  <2> QED BY <1>4, <1>6, <2>1
<1>9. s \in [Vouchers -> UsageStatuses] BY <1>1 DEF UsageStatuses
<1>10. usage' = [w \in Vouchers |-> [usage[w] EXCEPT ![o] = s[w]]] BY <1>1, <1>5
<1>11. \A w \in Vouchers : s[w] = IF w = v THEN "reserved" ELSE usage[w][o] OBVIOUS
<1> HIDE DEF s
<1>12. \A w \in Vouchers : s[w] \in Due(r, w) BY <1>3, <1>11 DEF Due, Carries
<1>13. \A w \in Vouchers : /\ voucher[w].reserved \in Int /\ voucher[w].used \in Int
                           /\ Count(usage[w][o], "reserved") = 0 /\ Count(usage[w][o], "used") = 0
  BY <1>1, <1>3 DEF VoucherRecords, Count
<1>14. \A w \in Vouchers : /\ Count(s[w], "reserved") = IF w = v THEN 1 ELSE 0
                           /\ Count(s[w], "used") = 0
  BY <1>3, <1>11 DEF Count
<1>15. \A w \in Vouchers :
          /\ voucher'[w].reserved = voucher[w].reserved - Count(usage[w][o], "reserved")
                                    + Count(s[w], "reserved")
          /\ voucher'[w].used = voucher[w].used - Count(usage[w][o], "used") + Count(s[w], "used")
  BY <1>6, <1>7, <1>13, <1>14
<1>16. \A w \in Vouchers : /\ voucher'[w].status = voucher[w].status
                           /\ voucher'[w].owner = voucher[w].owner
  BY <1>6, <1>7
<1>17. \A w \in Vouchers :
          /\ Carries(r, w) => voucher'[w].status # "none"
          /\ Carries(r, w) /\ voucher'[w].owner # None => voucher'[w].holder = o
          /\ \/ voucher'[w].holder = voucher[w].holder
             \/ voucher[w].holder \in {o, None}
             \/ ~Carries(order[voucher[w].holder], w)
             \/ voucher[w].owner = None
  BY <1>6, <1>7, <1>16, MayReserveFree DEF Carries, IsPersonal
<1>18. OrderSound(r) BY DEF OrderSound
<1> QED BY <1>8, <1>9, <1>10, <1>12, <1>15, <1>16, <1>17, <1>18, OrderChange

LEMMA CreateOrderWithStep ==
  ASSUME IInv, NEW o \in Orders, NEW v \in Vouchers, CreateOrderWith(o, v)
  PROVE  IInv'
<1> DEFINE r == [order[o] EXCEPT !.status = "open", !.voucher = v]
<1>1. order[o] \in OrderRecords /\ order \in [Orders -> OrderRecords] BY DEF IInv, TypeOK
<1>2. OrderSound(order[o]) /\ order[o].status = "none" BY DEF IInv, OrdersSound, CreateOrderWith
<1>3. r \in OrderRecords /\ order' = [order EXCEPT ![o] = r] BY <1>1 DEF OrderRecords, CreateOrderWith
<1>4. order[o].voucher = None /\ order[o].payment = "none" /\ ~order[o].used
  BY <1>2 DEF OrderSound
<1>5. r.voucher = v /\ r.status = "open" /\ r.payment = "none" /\ ~r.used
  BY <1>1, <1>4 DEF OrderRecords
<1> HIDE DEF r
<1> QED BY <1>3, <1>4, <1>5, ReserveStep DEF CreateOrderWith

LEMMA ApplyVoucherStep ==
  ASSUME IInv, NEW o \in Orders, NEW v \in Vouchers, ApplyVoucher(o, v)
  PROVE  IInv'
<1> DEFINE r == [order[o] EXCEPT !.voucher = v]
<1>1. order[o] \in OrderRecords /\ order \in [Orders -> OrderRecords] BY DEF IInv, TypeOK
<1>2. OrderSound(order[o]) BY DEF IInv, OrdersSound
<1>3. r \in OrderRecords /\ order' = [order EXCEPT ![o] = r] BY <1>1 DEF OrderRecords, ApplyVoucher
<1>4. ~order[o].used /\ order[o].voucher = None BY <1>2 DEF OrderSound, ApplyVoucher
<1>5. r.voucher = v /\ r.status = "open" /\ r.payment = "none" /\ ~r.used
  BY <1>1, <1>4 DEF OrderRecords, ApplyVoucher
<1> HIDE DEF r
<1> QED BY <1>3, <1>4, <1>5, ReserveStep DEF ApplyVoucher

-----------------------------------------------------------------------------
(* Uses that are given back.                                               *)

Back(s) == IF s \in {"reserved", "used"} THEN "restored" ELSE s

(* releaseVoucherReservation takes one off what it releases.               *)
LEMMA ReleasedIs ==
  ASSUME IInv, NEW o \in Orders, NEW v \in Vouchers
  PROVE  /\ Released(o)[v] \in Countable
         /\ Released(o)[v].status = voucher[v].status
         /\ Released(o)[v].owner = voucher[v].owner
         /\ Released(o)[v].used = voucher[v].used
         /\ Released(o)[v].reserved = voucher[v].reserved - Count(usage[v][o], "reserved")
         /\ Released(o)[v].holder = voucher[v].holder \/ voucher[v].holder = o
<1>1. voucher[v] \in VoucherRecords BY DEF IInv, TypeOK
<1>2. CASE usage[v][o] # "reserved"
  <2>1. Released(o)[v] = voucher[v] BY <1>2 DEF Released
  <2> QED BY <1>1, <1>2, <2>1 DEF VoucherRecords, Countable, Count
<1>3. CASE usage[v][o] = "reserved"
  <2> DEFINE h == IF voucher[v].holder = o THEN None ELSE voucher[v].holder
             n == voucher[v].reserved - 1
  <2>1. voucher[v].reserved >= 1 BY <1>3, HeldCounted
  <2>2. voucher[v].reserved \in Nat /\ voucher[v].holder \in Orders \cup {None}
    BY <1>1 DEF VoucherRecords
  <2>3. Released(o)[v] = [voucher[v] EXCEPT !.reserved = n, !.holder = h]
    <3>1. voucher[v].reserved > 0 BY <2>1, <2>2
    <3>2. (IF voucher[v].reserved > 0 THEN voucher[v].reserved - 1 ELSE 0) = n BY <3>1
    <3>3. Released(o)[v] = [voucher[v] EXCEPT
            !.reserved = IF voucher[v].reserved > 0 THEN voucher[v].reserved - 1 ELSE 0,
            !.holder = h]
      BY <1>3 DEF Released
    <3> HIDE DEF n, h
    <3> QED BY <3>2, <3>3
  <2>4. h \in Orders \cup {None} /\ n \in Int /\ (h = voucher[v].holder \/ voucher[v].holder = o)
    BY <2>2
  <2>5. n = voucher[v].reserved - Count(usage[v][o], "reserved") BY <1>3 DEF Count
  <2> HIDE DEF h, n
  <2>6. Released(o)[v] = [status |-> voucher[v].status, owner |-> voucher[v].owner, holder |-> h,
                          limit |-> voucher[v].limit, perUser |-> voucher[v].perUser,
                          used |-> voucher[v].used, reserved |-> n]
    BY <1>1, <2>3 DEF VoucherRecords
  <2>7. Released(o)[v] \in Countable BY <1>1, <2>4, <2>6 DEF VoucherRecords, Countable
  <2> QED BY <2>4, <2>5, <2>6, <2>7
<1> QED BY <1>2, <1>3

(* An order that carries no code any more has given back what it held.     *)
LEMMA GiveBack ==
  ASSUME IInv, NEW o \in Orders, NEW r \in OrderRecords, order' = [order EXCEPT ![o] = r],
         UNCHANGED admin, OrderSound(r), \A v \in Vouchers : ~Carries(r, v),
         usage' = [v \in Vouchers |-> [usage[v] EXCEPT ![o] = Back(usage[v][o])]],
         voucher' \in [Vouchers -> Countable],
         \A v \in Vouchers :
            /\ voucher'[v].status = "none" => voucher[v].status = "none"
            /\ voucher'[v].owner = voucher[v].owner \/ voucher[v].status = "none"
            /\ voucher'[v].reserved = voucher[v].reserved - Count(usage[v][o], "reserved")
            /\ voucher'[v].used = voucher[v].used - Count(usage[v][o], "used")
            /\ \/ voucher'[v].holder = voucher[v].holder
               \/ voucher[v].holder = o
               \/ voucher[v].status = "none"
  PROVE  IInv'
<1> DEFINE s == [v \in Vouchers |-> Back(usage[v][o])]
<1>1. /\ voucher \in [Vouchers -> VoucherRecords]
      /\ usage \in [Vouchers -> [Orders -> UsageStatuses]]
  BY DEF IInv, TypeOK
<1>2. s \in [Vouchers -> UsageStatuses] BY <1>1 DEF Back, UsageStatuses
<1>3. usage' = [v \in Vouchers |-> [usage[v] EXCEPT ![o] = s[v]]] OBVIOUS
<1>4. \A v \in Vouchers : s[v] \in {"none", "restored"} BY <1>1 DEF Back, UsageStatuses
<1> HIDE DEF s
<1>5. \A v \in Vouchers : Count(s[v], "reserved") = 0 /\ Count(s[v], "used") = 0
  BY <1>4 DEF Count
<1>6. \A v \in Vouchers : /\ voucher[v].reserved \in Int /\ voucher[v].used \in Int
                          /\ Count(usage[v][o], "reserved") \in Int
                          /\ Count(usage[v][o], "used") \in Int
  BY <1>1 DEF VoucherRecords, Count
<1>7. \A v \in Vouchers :
         /\ voucher'[v].reserved = voucher[v].reserved - Count(usage[v][o], "reserved")
                                   + Count(s[v], "reserved")
         /\ voucher'[v].used = voucher[v].used - Count(usage[v][o], "used") + Count(s[v], "used")
  BY <1>5, <1>6
<1>8. \A v \in Vouchers : s[v] \in Due(r, v) BY <1>4 DEF Due
<1>9. \A v \in Vouchers :
         \/ voucher'[v].holder = voucher[v].holder
         \/ voucher[v].holder \in {o, None}
         \/ ~Carries(order[voucher[v].holder], v)
         \/ voucher[v].owner = None
         \/ voucher[v].status = "none"
  OBVIOUS
<1> QED BY <1>2, <1>3, <1>7, <1>8, <1>9, OrderChange

LEMMA RemoveVoucherStep ==
  ASSUME IInv, NEW o \in Orders, RemoveVoucher(o)
  PROVE  IInv'
<1> DEFINE w == order[o].voucher
           r == [order[o] EXCEPT !.voucher = None]
           free == /\ Released(o)[w].holder = o /\ Released(o)[w].owner = order[o].customer
                   /\ Released(o)[w].used = 0
<1>1. /\ voucher \in [Vouchers -> VoucherRecords]
      /\ usage \in [Vouchers -> [Orders -> UsageStatuses]]
      /\ order \in [Orders -> OrderRecords] /\ order[o] \in OrderRecords
  BY DEF IInv, TypeOK
<1>2. /\ order[o].status = "open" /\ w # None /\ order[o].payment = "none"
      /\ voucher' = IF free THEN [Released(o) EXCEPT ![w].holder = None] ELSE Released(o)
      /\ usage' = ReleasedUsage(o)
      /\ order' = [order EXCEPT ![o] = r] /\ UNCHANGED admin
  BY <1>1 DEF RemoveVoucher, DropVoucher
<1>3. OrderSound(order[o]) BY DEF IInv, OrdersSound
<1>4. r \in OrderRecords /\ OrderSound(r) BY <1>1, <1>2, <1>3 DEF OrderRecords, OrderSound
<1>5. \A v \in Vouchers : ~Carries(r, v) BY <1>1, VouchersAssumption DEF Carries, OrderRecords
<1>6. \A v \in Vouchers : usage[v][o] # "used" BY <1>2, HeldIsDue DEF Due
<1>7. usage' = [v \in Vouchers |-> [usage[v] EXCEPT ![o] = Back(usage[v][o])]]
  <2>1. \A v \in Vouchers : usage[v] = [usage[v] EXCEPT ![o] = usage[v][o]] BY <1>1
  <2>2. \A v \in Vouchers :
           (IF usage[v][o] = "reserved" THEN [usage[v] EXCEPT ![o] = "restored"] ELSE usage[v])
             = [usage[v] EXCEPT ![o] = Back(usage[v][o])]
    BY <1>6, <2>1 DEF Back
  <2> QED BY <1>2, <2>2 DEF ReleasedUsage
<1>8. \A v \in Vouchers : Count(usage[v][o], "used") = 0 BY <1>6 DEF Count
<1>9. w \in Vouchers BY <1>1, <1>2 DEF OrderRecords
<1>10. \A v \in Vouchers :
          voucher'[v] = IF free /\ v = w THEN [Released(o)[v] EXCEPT !.holder = None]
                        ELSE Released(o)[v]
  BY <1>2, <1>9 DEF Released
<1>11. \A v \in Vouchers :
          /\ voucher'[v] \in Countable
          /\ voucher'[v].status = Released(o)[v].status
          /\ voucher'[v].owner = Released(o)[v].owner
          /\ voucher'[v].used = Released(o)[v].used
          /\ voucher'[v].reserved = Released(o)[v].reserved
          /\ voucher'[v].holder = Released(o)[v].holder \/ Released(o)[v].holder = o
  <2> TAKE v \in Vouchers
  <2>1. Released(o)[v] \in Countable BY ReleasedIs
  <2> HIDE DEF free, w
  <2>2. CASE free /\ v = w
    <3>1. voucher'[v] = [Released(o)[v] EXCEPT !.holder = None] BY <1>10, <2>2
    <3>2. Released(o)[v].holder = o BY <2>2 DEF free
    <3> QED BY <2>1, <3>1, <3>2 DEF Countable
  <2>3. CASE ~(free /\ v = w)
    <3>1. voucher'[v] = Released(o)[v] BY <1>10, <2>3
    <3> QED BY <2>1, <3>1
  <2> QED BY <2>2, <2>3
<1> HIDE DEF w, r, free
<1>12. voucher' \in [Vouchers -> Countable]
  <2>1. voucher' = [v \in Vouchers |-> voucher'[v]] BY <1>2 DEF Released
  <2> QED BY <1>11, <2>1
<1>13. \A v \in Vouchers : voucher[v].used \in Int /\ voucher[v].used - 0 = voucher[v].used
  BY <1>1 DEF VoucherRecords
<1>14. \A v \in Vouchers :
          /\ voucher'[v].status = voucher[v].status /\ voucher'[v].owner = voucher[v].owner
          /\ voucher'[v].reserved = voucher[v].reserved - Count(usage[v][o], "reserved")
          /\ voucher'[v].used = voucher[v].used - Count(usage[v][o], "used")
          /\ voucher'[v].holder = voucher[v].holder \/ voucher[v].holder = o
  BY <1>8, <1>11, <1>13, ReleasedIs
<1> QED BY <1>2, <1>4, <1>5, <1>7, <1>12, <1>14, GiveBack

LEMMA DiscardOrderStep ==
  ASSUME IInv, NEW o \in Orders, DiscardOrder(o)
  PROVE  IInv'
<1> DEFINE r == [order[o] EXCEPT !.status = "discarded"]
<1>1. /\ voucher \in [Vouchers -> VoucherRecords]
      /\ usage \in [Vouchers -> [Orders -> UsageStatuses]]
      /\ order \in [Orders -> OrderRecords] /\ order[o] \in OrderRecords
  BY DEF IInv, TypeOK
<1>2. /\ order[o].payment = "none"
      /\ voucher' = Released(o) /\ usage' = ReleasedUsage(o)
      /\ order' = [order EXCEPT ![o] = r] /\ UNCHANGED admin
  BY <1>1 DEF DiscardOrder
<1>3. OrderSound(order[o]) BY DEF IInv, OrdersSound
<1>4. r \in OrderRecords /\ OrderSound(r) BY <1>1, <1>3 DEF OrderRecords, OrderSound
<1>5. \A v \in Vouchers : ~Carries(r, v) BY <1>1 DEF Carries, OrderRecords
<1>6. \A v \in Vouchers : usage[v][o] # "used" BY <1>2, HeldIsDue DEF Due
<1>7. usage' = [v \in Vouchers |-> [usage[v] EXCEPT ![o] = Back(usage[v][o])]]
  <2>1. \A v \in Vouchers : usage[v] = [usage[v] EXCEPT ![o] = usage[v][o]] BY <1>1
  <2>2. \A v \in Vouchers :
           (IF usage[v][o] = "reserved" THEN [usage[v] EXCEPT ![o] = "restored"] ELSE usage[v])
             = [usage[v] EXCEPT ![o] = Back(usage[v][o])]
    BY <1>6, <2>1 DEF Back
  <2> QED BY <1>2, <2>2 DEF ReleasedUsage
<1>8. \A v \in Vouchers : Count(usage[v][o], "used") = 0 BY <1>6 DEF Count
<1> HIDE DEF r
<1>9. voucher' \in [Vouchers -> Countable]
  <2>1. voucher' = [v \in Vouchers |-> Released(o)[v]] BY <1>2 DEF Released
  <2> QED BY <2>1, ReleasedIs
<1>10. \A v \in Vouchers : voucher[v].used - 0 = voucher[v].used BY <1>1 DEF VoucherRecords
<1>11. \A v \in Vouchers :
          /\ voucher'[v].status = voucher[v].status /\ voucher'[v].owner = voucher[v].owner
          /\ voucher'[v].reserved = voucher[v].reserved - Count(usage[v][o], "reserved")
          /\ voucher'[v].used = voucher[v].used - Count(usage[v][o], "used")
          /\ voucher'[v].holder = voucher[v].holder \/ voucher[v].holder = o
  BY <1>2, <1>8, <1>10, ReleasedIs
<1> QED BY <1>2, <1>4, <1>5, <1>7, <1>9, <1>11, GiveBack

(* What a cancellation makes of the codes and of their uses.               *)
LEMMA CancelledIs ==
  ASSUME IInv, NEW o \in Orders, order[o].status = "open"
  PROVE  /\ RestoredUsage(o, ReleasedUsage(o))
              = [v \in Vouchers |-> [usage[v] EXCEPT ![o] = Back(usage[v][o])]]
         /\ Restored(o, Released(o)) \in [Vouchers -> Countable]
         /\ \A v \in Vouchers :
              LET c == Restored(o, Released(o))[v] IN
              /\ c.status = voucher[v].status /\ c.owner = voucher[v].owner
              /\ c.reserved = voucher[v].reserved - Count(usage[v][o], "reserved")
              /\ c.used = voucher[v].used - Count(usage[v][o], "used")
              /\ c.holder = voucher[v].holder \/ voucher[v].holder = o
<1> DEFINE w == order[o].voucher
           R == Released(o)
           c == Restored(o, R)
<1>1. /\ voucher \in [Vouchers -> VoucherRecords]
      /\ usage \in [Vouchers -> [Orders -> UsageStatuses]] /\ order[o] \in OrderRecords
  BY DEF IInv, TypeOK
<1>2. order[o].used <=> order[o].payment = "paid" /\ w # None
  BY DEF IInv, OrdersSound, OrderSound
<1>3. w \in Vouchers \cup {None} /\ None \notin Vouchers
  BY <1>1, VouchersAssumption DEF OrderRecords
<1>4. \A v \in Vouchers : usage[v][o] = "used" <=> order[o].used /\ v = w
  BY <1>1, <1>2, <1>3, HeldIsDue DEF Due, Carries, UsageStatuses
<1>5. ReleasedUsage(o) = [v \in Vouchers |-> [usage[v] EXCEPT ![o] =
                            IF usage[v][o] = "reserved" THEN "restored" ELSE usage[v][o]]]
  <2>1. \A v \in Vouchers : usage[v] = [usage[v] EXCEPT ![o] = usage[v][o]] BY <1>1
  <2> QED BY <2>1 DEF ReleasedUsage
<1>6. RestoredUsage(o, ReleasedUsage(o))
        = [v \in Vouchers |-> [usage[v] EXCEPT ![o] = Back(usage[v][o])]]
  <2>1. CASE ~order[o].used
    <3>1. RestoredUsage(o, ReleasedUsage(o)) = ReleasedUsage(o) BY <2>1 DEF RestoredUsage
    <3>2. \A v \in Vouchers : usage[v][o] # "used" BY <1>4, <2>1
    <3> QED BY <1>5, <3>1, <3>2 DEF Back
  <2>2. CASE order[o].used
    <3>1. w \in Vouchers /\ usage[w][o] = "used" BY <1>2, <1>3, <1>4, <2>2
    <3>2. ReleasedUsage(o)[w][o] = "used" BY <1>1, <1>5, <3>1
    <3>3. RestoredUsage(o, ReleasedUsage(o)) = [ReleasedUsage(o) EXCEPT ![w][o] = "restored"]
      BY <1>3, <2>2, <3>1, <3>2 DEF RestoredUsage
    <3>4. \A v \in Vouchers : v # w => usage[v][o] # "used" BY <1>4
    <3> HIDE DEF w
    <3>5. \A v \in Vouchers : RestoredUsage(o, ReleasedUsage(o))[v]
                                = [usage[v] EXCEPT ![o] = Back(usage[v][o])]
      BY <1>1, <1>5, <3>1, <3>3, <3>4 DEF Back
    <3>6. RestoredUsage(o, ReleasedUsage(o))
            = [v \in Vouchers |-> RestoredUsage(o, ReleasedUsage(o))[v]]
      BY <1>5, <3>3
    <3> QED BY <3>5, <3>6
  <2> QED BY <2>1, <2>2
<1>7. R = [v \in Vouchers |-> R[v]] BY DEF Released
<1>8. \A v \in Vouchers : voucher[v].used \in Int /\ voucher[v].used - 0 = voucher[v].used
  BY <1>1 DEF VoucherRecords
<1>9. c = [v \in Vouchers |-> c[v]] /\
      \A v \in Vouchers :
         /\ c[v] \in Countable
         /\ c[v].status = R[v].status /\ c[v].owner = R[v].owner
         /\ c[v].reserved = R[v].reserved /\ c[v].holder = R[v].holder
         /\ c[v].used = voucher[v].used - Count(usage[v][o], "used")
  <2>0. \A v \in Vouchers : R[v] \in Countable /\ R[v].used = voucher[v].used BY ReleasedIs
  <2>1. CASE ~order[o].used
    <3>1. c = R BY <2>1 DEF Restored
    <3>2. \A v \in Vouchers : Count(usage[v][o], "used") = 0 BY <1>4, <2>1 DEF Count
    <3> HIDE DEF R, c
    <3> QED BY <1>7, <1>8, <2>0, <3>1, <3>2
  <2>2. CASE order[o].used
    <3>1. w \in Vouchers /\ usage[w][o] = "used" BY <1>2, <1>3, <1>4, <2>2
    <3>2. R[w].used >= 1 /\ R[w].used \in Int BY <1>8, <2>0, <3>1, HeldCounted
    <3>3. R[w].used > 0 BY <3>2
    <3>4. c = [R EXCEPT ![w].used = R[w].used - 1]
      BY <1>3, <2>2, <3>1, <3>3 DEF Restored
    <3>5. \A v \in Vouchers : Count(usage[v][o], "used") = IF v = w THEN 1 ELSE 0
      BY <1>4, <2>2 DEF Count
    <3> HIDE DEF R, c, w
    <3>6. \A v \in Vouchers : c[v] = IF v = w THEN [R[w] EXCEPT !.used = R[w].used - 1] ELSE R[v]
      BY <1>7, <3>1, <3>4
    <3>7. c = [v \in Vouchers |-> c[v]] BY <1>7, <3>4
    <3>8. \A v \in Vouchers \ {w} :
             /\ c[v] \in Countable
             /\ c[v].status = R[v].status /\ c[v].owner = R[v].owner
             /\ c[v].reserved = R[v].reserved /\ c[v].holder = R[v].holder
             /\ c[v].used = voucher[v].used - Count(usage[v][o], "used")
      BY <1>8, <2>0, <3>5, <3>6
    <3>9. /\ c[w] \in Countable
          /\ c[w].status = R[w].status /\ c[w].owner = R[w].owner
          /\ c[w].reserved = R[w].reserved /\ c[w].holder = R[w].holder
          /\ c[w].used = voucher[w].used - Count(usage[w][o], "used")
      BY <1>8, <2>0, <3>1, <3>2, <3>5, <3>6 DEF Countable
    <3> QED BY <3>7, <3>8, <3>9
  <2> QED BY <2>1, <2>2
<1> HIDE DEF c
<1>10. c \in [Vouchers -> Countable] BY <1>9
<1>11. \A v \in Vouchers :
          /\ c[v].status = voucher[v].status /\ c[v].owner = voucher[v].owner
          /\ c[v].reserved = voucher[v].reserved - Count(usage[v][o], "reserved")
          /\ c[v].used = voucher[v].used - Count(usage[v][o], "used")
          /\ c[v].holder = voucher[v].holder \/ voucher[v].holder = o
  BY <1>9, ReleasedIs
<1> QED BY <1>6, <1>10, <1>11 DEF c

(* A code that a customer is given.                                        *)
LEMMA GrantedIs ==
  ASSUME NEW customer \in Customers
  PROVE  /\ Granted(customer) \in Countable /\ Granted(customer) \in VoucherRecords
         /\ Granted(customer).status = "active"
         /\ Granted(customer).reserved = 0 /\ Granted(customer).used = 0
<1>1. Granted(customer) = [status |-> "active", owner |-> customer, holder |-> None, limit |-> 1,
                           perUser |-> 1, used |-> 0, reserved |-> 0]
  <2> DEFINE a == [NoCode EXCEPT !.status = "active"]
             b == [a EXCEPT !.owner = customer]
  <2>1. a = [status |-> "active", owner |-> None, holder |-> None, limit |-> 0,
             perUser |-> 1, used |-> 0, reserved |-> 0]
    BY DEF NoCode
  <2>2. Granted(customer) = [b EXCEPT !.limit = 1] BY DEF Granted
  <2> HIDE DEF a
  <2>3. b = [status |-> "active", owner |-> customer, holder |-> None, limit |-> 0,
             perUser |-> 1, used |-> 0, reserved |-> 0]
    BY <2>1
  <2> HIDE DEF b
  <2> QED BY <2>2, <2>3
<1>2. 1 \in 0 .. MaxLimit /\ 1 \in 1 .. MaxLimit BY VouchersAssumption
<1> QED BY <1>1, <1>2 DEF Countable, VoucherRecords

LEMMA CancelOrderStep ==
  ASSUME IInv, NEW o \in Orders,
         CancelOrder(o) \/ \E v \in Vouchers : CancelUnreplaced(o, v)
  PROVE  IInv'
<1> DEFINE r == [order[o] EXCEPT !.status = "cancelled"]
           c == Restored(o, Released(o))
<1>1. /\ voucher \in [Vouchers -> VoucherRecords]
      /\ order \in [Orders -> OrderRecords] /\ order[o] \in OrderRecords
  BY DEF IInv, TypeOK
<1>2. /\ order[o].status = "open" /\ UNCHANGED admin
      /\ usage' = RestoredUsage(o, ReleasedUsage(o))
      /\ order' = [order EXCEPT ![o] = r]
  BY <1>1 DEF CancelOrder, CancelUnreplaced
<1>3. OrderSound(order[o]) BY DEF IInv, OrdersSound
<1>4. r \in OrderRecords /\ OrderSound(r) BY <1>1, <1>2, <1>3 DEF OrderRecords, OrderSound
<1>5. \A v \in Vouchers : ~Carries(r, v) BY <1>1 DEF Carries, OrderRecords
<1>6. usage' = [v \in Vouchers |-> [usage[v] EXCEPT ![o] = Back(usage[v][o])]]
  BY <1>2, CancelledIs
<1>7. /\ c \in [Vouchers -> Countable]
      /\ \A v \in Vouchers :
              /\ c[v].status = voucher[v].status /\ c[v].owner = voucher[v].owner
              /\ c[v].reserved = voucher[v].reserved - Count(usage[v][o], "reserved")
              /\ c[v].used = voucher[v].used - Count(usage[v][o], "used")
              /\ c[v].holder = voucher[v].holder \/ voucher[v].holder = o
  BY <1>2, CancelledIs
<1>8. CASE CancelOrder(o)
  <2>1. voucher' = c BY <1>8 DEF CancelOrder
  <2> HIDE DEF r, c
  <2> QED BY <1>2, <1>4, <1>5, <1>6, <1>7, <2>1, GiveBack
<1>9. ASSUME NEW w \in Vouchers, CancelUnreplaced(o, w) PROVE IInv'
  <2> DEFINE g == Granted(order[o].customer)
  <2>1. voucher' = [c EXCEPT ![w] = g] /\ voucher[w].status = "none" BY <1>9 DEF CancelUnreplaced
  <2>2. g \in Countable /\ g.status = "active" /\ g.reserved = 0 /\ g.used = 0
    BY <1>1, GrantedIs DEF OrderRecords
  <2>3. voucher[w].reserved = 0 /\ voucher[w].used = 0 BY <2>1, UncreatedCounts
  <2>4. usage[w][o] \notin {"reserved", "used"} BY <2>1 DEF IInv, UncreatedUnused
  <2>5. Count(usage[w][o], "reserved") = 0 /\ Count(usage[w][o], "used") = 0 BY <2>4 DEF Count
  <2> HIDE DEF r, c, g
  <2>6. voucher' \in [Vouchers -> Countable] BY <1>7, <2>1, <2>2
  <2>7. \A v \in Vouchers : voucher'[v] = IF v = w THEN g ELSE c[v] BY <1>7, <2>1
  <2>8. \A v \in Vouchers :
            /\ voucher'[v].status = "none" => voucher[v].status = "none"
            /\ voucher'[v].owner = voucher[v].owner \/ voucher[v].status = "none"
            /\ voucher'[v].reserved = voucher[v].reserved - Count(usage[v][o], "reserved")
            /\ voucher'[v].used = voucher[v].used - Count(usage[v][o], "used")
            /\ \/ voucher'[v].holder = voucher[v].holder
               \/ voucher[v].holder = o
               \/ voucher[v].status = "none"
    BY <1>7, <2>1, <2>2, <2>3, <2>5, <2>7
  <2> QED BY <1>2, <1>4, <1>5, <1>6, <2>6, <2>8, GiveBack
<1> QED BY <1>8, <1>9

-----------------------------------------------------------------------------
(* Payment.                                                                *)

(* A reservation that becomes a use, field by field.                       *)
LEMMA Counted ==
  ASSUME NEW c \in VoucherRecords, NEW n, NEW m
  PROVE  [c EXCEPT !.reserved = n, !.used = m]
           = [status |-> c.status, owner |-> c.owner, holder |-> c.holder, limit |-> c.limit,
              perUser |-> c.perUser, used |-> m, reserved |-> n]
<1> DEFINE a == [c EXCEPT !.reserved = n]
<1>1. a = [status |-> c.status, owner |-> c.owner, holder |-> c.holder, limit |-> c.limit,
           perUser |-> c.perUser, used |-> c.used, reserved |-> n]
  BY DEF VoucherRecords
<1>2. [c EXCEPT !.reserved = n, !.used = m] = [a EXCEPT !.used = m] OBVIOUS
<1> HIDE DEF a
<1> QED BY <1>1, <1>2

LEMMA PayStep ==
  ASSUME IInv, NEW o \in Orders, PayOrder(o) \/ ConfirmCash(o)
  PROVE  IInv'
<1> DEFINE w == order[o].voucher
           r == [order[o] EXCEPT !.payment = "paid", !.used = order[o].voucher # None]
<1>1. /\ voucher \in [Vouchers -> VoucherRecords]
      /\ usage \in [Vouchers -> [Orders -> UsageStatuses]]
      /\ order \in [Orders -> OrderRecords] /\ order[o] \in OrderRecords
  BY DEF IInv, TypeOK
<1>2. /\ order[o].status \in {"open", "completed"} /\ UNCHANGED admin
      /\ MarkUsed(o) /\ order' = [order EXCEPT ![o] = r]
  BY <1>1 DEF PayOrder, ConfirmCash
<1>3. order[o].used <=> order[o].payment = "paid" /\ w # None
  BY DEF IInv, OrdersSound, OrderSound
<1>4. w \in Vouchers \cup {None} /\ None \notin Vouchers
  BY <1>1, VouchersAssumption DEF OrderRecords
<1>5. /\ r \in OrderRecords /\ OrderSound(r)
      /\ r.voucher = w /\ r.payment = "paid" /\ r.status = order[o].status
  BY <1>1, <1>2 DEF OrderRecords, OrderSound
<1>6. \A v \in Vouchers : Carries(r, v) <=> v = w BY <1>2, <1>5 DEF Carries
<1>7. \A v \in Vouchers : Carries(order[o], v) <=> v = w BY <1>2 DEF Carries
<1> HIDE DEF r
<1>8. CASE w = None \/ order[o].used
  <2>1. UNCHANGED <<voucher, usage>> BY <1>2, <1>8 DEF MarkUsed
  <2>2. \A v \in Vouchers : /\ Carries(r, v) <=> Carries(order[o], v)
                            /\ Carries(r, v) => order[o].payment = "paid"
    BY <1>3, <1>4, <1>6, <1>7, <1>8
  <2> QED BY <1>2, <1>5, <2>1, <2>2, OrderQuiet
<1>9. CASE w # None /\ ~order[o].used
  <2> DEFINE s == [v \in Vouchers |-> IF v = w THEN "used" ELSE usage[v][o]]
             n == voucher[w].reserved - 1
             m == voucher[w].used + 1
             code == [voucher[w] EXCEPT !.reserved = n, !.used = m]
  <2>1. /\ usage[w][o] = "reserved" /\ voucher' = [voucher EXCEPT ![w] = code]
        /\ usage' = [usage EXCEPT ![w][o] = "used"]
    BY <1>1, <1>2, <1>9 DEF MarkUsed
  <2>2. w \in Vouchers BY <1>4, <1>9
  <2>3. voucher[w] \in VoucherRecords BY <1>1, <2>2
  <2>4. n \in Int /\ m \in Int BY <2>3 DEF VoucherRecords
  <2> HIDE DEF n, m
  <2>5. code = [status |-> voucher[w].status, owner |-> voucher[w].owner,
                holder |-> voucher[w].holder, limit |-> voucher[w].limit,
                perUser |-> voucher[w].perUser, used |-> m, reserved |-> n]
    BY <2>3, Counted
  <2>6. code \in Countable BY <2>3, <2>4, <2>5 DEF VoucherRecords, Countable
  <2>7. \A v \in Vouchers : s[v] = IF v = w THEN "used" ELSE usage[v][o] OBVIOUS
  <2>8. s \in [Vouchers -> UsageStatuses] BY <1>1 DEF UsageStatuses
  <2>9. usage' = [v \in Vouchers |-> [usage[v] EXCEPT ![o] = s[v]]] BY <1>1, <2>1, <2>2
  <2> HIDE DEF s, w
  <2>10. \A v \in Vouchers : voucher'[v] = IF v = w THEN code ELSE voucher[v]
    BY <1>1, <2>1, <2>2
  <2>11. \A v \in Vouchers : v # w => usage[v][o] \in {"none", "restored"}
    BY <1>7, HeldIsDue DEF Due
  <2>12. \A v \in Vouchers : s[v] \in Due(r, v)
    BY <1>5, <1>6, <2>7, <2>11 DEF Due
  <2>13. voucher' \in [Vouchers -> Countable]
    <3>1. voucher \in [Vouchers -> Countable] BY <1>1 DEF VoucherRecords, Countable
    <3> QED BY <2>1, <2>6, <3>1
  <2>14. \A v \in Vouchers :
            /\ voucher[v].reserved \in Int /\ voucher[v].used \in Int
            /\ Count(usage[v][o], "reserved") = (IF v = w THEN 1 ELSE 0)
            /\ Count(usage[v][o], "used") = 0
            /\ Count(s[v], "reserved") = 0
            /\ Count(s[v], "used") = (IF v = w THEN 1 ELSE 0)
    BY <1>1, <2>1, <2>7, <2>11 DEF VoucherRecords, Count
  <2>15. \A v \in Vouchers :
            /\ voucher'[v].reserved = voucher[v].reserved - Count(usage[v][o], "reserved")
                                      + Count(s[v], "reserved")
            /\ voucher'[v].used = voucher[v].used - Count(usage[v][o], "used") + Count(s[v], "used")
    BY <2>5, <2>10, <2>14 DEF n, m
  <2>16. \A v \in Vouchers : /\ voucher'[v].status = voucher[v].status
                             /\ voucher'[v].owner = voucher[v].owner
                             /\ voucher'[v].holder = voucher[v].holder
    BY <2>5, <2>10
  <2>17. \A v \in Vouchers : Carries(r, v) =>
            /\ voucher'[v].status # "none"
            /\ voucher'[v].owner # None => voucher'[v].holder = o
    <3>1. voucher[w].status # "none" BY <2>1, <2>2 DEF IInv, UncreatedUnused
    <3> QED BY <1>6, <1>7, <2>16, <3>1, HeldIsDue
  <2> QED BY <1>2, <1>5, <2>8, <2>9, <2>12, <2>13, <2>15, <2>16, <2>17, OrderChange
<1> QED BY <1>8, <1>9

-----------------------------------------------------------------------------
(* The codes.                                                              *)

(* Nothing changes but what the administrator is doing.                    *)
LEMMA Unchanged ==
  ASSUME IInv, UNCHANGED <<voucher, usage, order>>, admin' \in AdminRecords
  PROVE  IInv'
<1>1. TypeOK' BY DEF IInv, TypeOK
<1>2. OrdersSound' /\ UncreatedUnused' BY DEF IInv, OrdersSound, UncreatedUnused
<1>3. CountersMatchUsages' BY DEF IInv, CountersMatchUsages, With
<1>4. DiscountBacked' BY DEF IInv, DiscountBacked, IsLive, IsPersonal
<1> QED BY <1>1, <1>2, <1>3, <1>4 DEF IInv

(* A code changes that is new, or keeps its counters, owner and holder.    *)
LEMMA CodeChange ==
  ASSUME IInv, NEW v \in Vouchers, NEW c \in VoucherRecords,
         voucher' = [voucher EXCEPT ![v] = c], UNCHANGED <<usage, order>>, admin' \in AdminRecords,
         c.status = "none" => voucher[v].status = "none",
         c.reserved = voucher[v].reserved, c.used = voucher[v].used,
         \/ voucher[v].status = "none"
         \/ c.owner = voucher[v].owner /\ c.holder = voucher[v].holder
  PROVE  IInv'
<1>1. voucher \in [Vouchers -> VoucherRecords] BY DEF IInv, TypeOK
<1>2. \A w \in Vouchers : voucher'[w] = IF w = v THEN c ELSE voucher[w] BY <1>1
<1>3. TypeOK' BY <1>1 DEF IInv, TypeOK
<1>4. OrdersSound' BY DEF IInv, OrdersSound
<1>5. UncreatedUnused' BY <1>2 DEF IInv, UncreatedUnused
<1>6. CountersMatchUsages' BY <1>2 DEF IInv, CountersMatchUsages, With
<1>7. \A w \in Vouchers, o \in Orders :
         Carries(order[o], w) /\ voucher'[w].owner # None => voucher'[w].holder = o
  <2> TAKE w \in Vouchers, o \in Orders
  <2>1. Carries(order[o], w) => voucher[w].status # "none"
    BY HeldIsDue DEF IInv, UncreatedUnused, Due
  <2> QED BY <1>2, <2>1, HeldIsDue
<1>8. DiscountBacked' BY <1>7 DEF IInv, DiscountBacked, Carries, IsLive, IsPersonal
<1> QED BY <1>3, <1>4, <1>5, <1>6, <1>8 DEF IInv

LEMMA VoucherSteps ==
  ASSUME IInv, VoucherStep \/ SaveVoucher
  PROVE  IInv'
<1>1. voucher \in [Vouchers -> VoucherRecords] /\ admin \in AdminRecords BY DEF IInv, TypeOK
<1>2. ASSUME NEW v \in Vouchers, NEW limit \in 0 .. MaxLimit, NEW perUser \in 1 .. MaxLimit,
             NEW status \in {"active", "inactive"}, CreateVoucher(v, limit, perUser, status)
      PROVE  IInv'
  <2> DEFINE c == [NoCode EXCEPT !.status = status, !.limit = limit, !.perUser = perUser]
  <2>1. /\ c \in VoucherRecords /\ c.status \in {"active", "inactive", "expired"}
        /\ c.reserved = 0 /\ c.used = 0
    <3> DEFINE a == [NoCode EXCEPT !.status = status]
               b == [a EXCEPT !.limit = limit]
    <3>1. a = [status |-> status, owner |-> None, holder |-> None, limit |-> 0,
               perUser |-> 1, used |-> 0, reserved |-> 0]
      BY DEF NoCode
    <3>2. c = [b EXCEPT !.perUser = perUser] OBVIOUS
    <3> HIDE DEF a, c
    <3>3. b = [status |-> status, owner |-> None, holder |-> None, limit |-> limit,
               perUser |-> 1, used |-> 0, reserved |-> 0]
      BY <3>1
    <3> HIDE DEF b
    <3>4. c = [status |-> status, owner |-> None, holder |-> None, limit |-> limit,
               perUser |-> perUser, used |-> 0, reserved |-> 0]
      BY <3>2, <3>3
    <3> QED BY <3>4 DEF VoucherRecords
  <2>2. voucher[v].status = "none" /\ voucher' = [voucher EXCEPT ![v] = c]
    BY <1>2 DEF CreateVoucher
  <2>3. UNCHANGED <<usage, order, admin>> BY <1>2 DEF CreateVoucher
  <2> HIDE DEF c
  <2> QED BY <1>1, <2>1, <2>2, <2>3, UncreatedCounts, CodeChange
<1>3. ASSUME NEW v \in Vouchers, NEW customer \in Customers, RedeemReward(v, customer)
      PROVE  IInv'
  <2>1. /\ voucher[v].status = "none" /\ voucher' = [voucher EXCEPT ![v] = Granted(customer)]
        /\ UNCHANGED <<usage, order, admin>>
    BY <1>3 DEF RedeemReward
  <2> QED BY <1>1, <2>1, GrantedIs, UncreatedCounts, CodeChange
<1>4. ASSUME NEW v \in Vouchers, NEW limit \in 0 .. MaxLimit, NEW perUser \in 1 .. MaxLimit,
             NEW status \in {"active", "inactive"}, UpdateVoucher(v, limit, perUser, status)
      PROVE  IInv'
  <2> DEFINE a == [voucher[v] EXCEPT !.limit = limit]
             b == [a EXCEPT !.perUser = perUser]
             c == [b EXCEPT !.status = status]
  <2>1. voucher[v] \in VoucherRecords BY <1>1
  <2>2. voucher' = [voucher EXCEPT ![v] = c] BY <1>1, <1>4 DEF UpdateVoucher
  <2>3. /\ c \in VoucherRecords /\ c.status \in {"active", "inactive", "expired"}
        /\ c.reserved = voucher[v].reserved /\ c.used = voucher[v].used
        /\ c.owner = voucher[v].owner /\ c.holder = voucher[v].holder
    <3>1. a \in VoucherRecords
          /\ a.reserved = voucher[v].reserved /\ a.used = voucher[v].used
          /\ a.owner = voucher[v].owner /\ a.holder = voucher[v].holder
      BY <2>1 DEF VoucherRecords
    <3> HIDE DEF a
    <3>2. b \in VoucherRecords
          /\ b.reserved = a.reserved /\ b.used = a.used /\ b.owner = a.owner /\ b.holder = a.holder
      BY <3>1 DEF VoucherRecords
    <3> HIDE DEF b
    <3>3. c \in VoucherRecords /\ c.status = status
          /\ c.reserved = b.reserved /\ c.used = b.used /\ c.owner = b.owner /\ c.holder = b.holder
      BY <3>2 DEF VoucherRecords
    <3> QED BY <3>1, <3>2, <3>3
  <2>4. UNCHANGED <<usage, order, admin>> BY <1>4 DEF UpdateVoucher
  <2> HIDE DEF c
  <2> QED BY <1>1, <2>2, <2>3, <2>4, CodeChange
<1>5. ASSUME NEW v \in Vouchers, NEW s \in {"active", "inactive", "expired", "deleted"},
             voucher' = [voucher EXCEPT ![v].status = s], UNCHANGED <<usage, order>>,
             admin' \in AdminRecords
      PROVE  IInv'
  <2> DEFINE c == [voucher[v] EXCEPT !.status = s]
  <2>1. voucher[v] \in VoucherRecords BY <1>1
  <2>2. voucher' = [voucher EXCEPT ![v] = c] BY <1>1, <1>5
  <2>3. /\ c \in VoucherRecords /\ c.status = s
        /\ c.reserved = voucher[v].reserved /\ c.used = voucher[v].used
        /\ c.owner = voucher[v].owner /\ c.holder = voucher[v].holder
    BY <2>1 DEF VoucherRecords
  <2>4. c.status # "none" BY <2>3
  <2> HIDE DEF c
  <2> QED BY <1>5, <2>2, <2>3, <2>4, CodeChange
<1>6. ASSUME NEW v \in Vouchers, EnableVoucher(v) \/ ExpireVoucher(v) PROVE IInv'
  <2>1. PICK s \in {"active", "expired"} : voucher' = [voucher EXCEPT ![v].status = s]
    BY <1>6 DEF EnableVoucher, ExpireVoucher
  <2>2. UNCHANGED <<usage, order, admin>> BY <1>6 DEF EnableVoucher, ExpireVoucher
  <2> QED BY <1>1, <1>5, <2>1, <2>2
<1>7. ASSUME NEW v \in Vouchers, NEW s \in {"inactive", "deleted"}, CheckVoucher(v, s)
      PROVE  IInv'
  <2>1. admin' \in AdminRecords BY <1>7 DEF CheckVoucher, AdminRecords
  <2>2. UNCHANGED <<voucher, usage, order>> BY <1>7 DEF CheckVoucher
  <2> QED BY <2>1, <2>2, Unchanged
<1>8. CASE SaveVoucher
  <2>1. /\ admin # Idle /\ voucher' = [voucher EXCEPT ![admin.voucher].status = admin.at]
        /\ admin' = Idle /\ UNCHANGED <<usage, order>>
    BY <1>8 DEF SaveVoucher
  <2>2. admin' \in AdminRecords BY <2>1 DEF Idle, AdminRecords
  <2>3. admin.at \in {"inactive", "deleted"} /\ admin.voucher \in Vouchers
    BY <1>1, <2>1 DEF AdminRecords
  <2> QED BY <1>5, <2>1, <2>2, <2>3
<1> QED BY <1>2, <1>3, <1>4, <1>6, <1>7, <1>8 DEF VoucherStep

-----------------------------------------------------------------------------
(* The theorems.                                                           *)

LEMMA StepIInv == ASSUME IInv, [Next]_vars PROVE IInv'
<1>1. CASE UNCHANGED vars
  BY <1>1, Unchanged DEF vars, IInv, TypeOK
<1>2. CASE OrderStep
  BY <1>2, CreateOrderStep, CreateOrderWithStep, ApplyVoucherStep, RemoveVoucherStep,
     DiscardOrderStep, CancelOrderStep, PaymentStep, PayStep DEF OrderStep
<1>3. CASE VoucherStep \/ SaveVoucher BY <1>3, VoucherSteps
<1> QED BY <1>1, <1>2, <1>3 DEF Next

(* What keeps the counters and the orders together is inductive.           *)
THEOREM VouchersInvariant == Spec => []IInv
<1>1. Init => IInv BY InitIInv
<1>2. IInv /\ [Next]_vars => IInv' BY StepIInv
<1> QED BY <1>1, <1>2, PTL DEF Spec

(* No counter of a code goes below zero, and every record has its type.    *)
THEOREM VouchersTypeCorrect == Spec => []TypeOK
<1>1. IInv => TypeOK BY DEF IInv
<1> QED BY <1>1, VouchersInvariant, PTL

(* The counters of a code are the uses that orders hold.                   *)
THEOREM CountersMatchUsagesCorrect == Spec => []CountersMatchUsages
<1>1. IInv => CountersMatchUsages BY DEF IInv
<1> QED BY <1>1, VouchersInvariant, PTL

(* An order that is not cancelled holds a use of the code it carries.      *)
THEOREM DiscountBackedCorrect == Spec => []DiscountBacked
<1>1. IInv => DiscountBacked BY DEF IInv
<1> QED BY <1>1, VouchersInvariant, PTL

-----------------------------------------------------------------------------
(* Limits.                                                                 *)

(* The uses of a code are counted by both counters together.               *)
LEMMA HeldIsTaken ==
  ASSUME IInv, NEW v \in Vouchers
  PROVE  /\ IsFiniteSet(Held(v)) /\ Cardinality(Held(v)) = Taken(v)
         /\ Taken(v) \in Nat
<1>1. /\ IsFiniteSet(With(v, "reserved")) /\ Cardinality(With(v, "reserved")) \in Nat
      /\ IsFiniteSet(With(v, "used")) /\ Cardinality(With(v, "used")) \in Nat
  BY Finite
<1>2. With(v, "reserved") \cap With(v, "used") = {} BY DEF With
<1>3. Cardinality(With(v, "reserved") \cap With(v, "used")) = 0 BY <1>2, FS_EmptySet
<1>4. /\ IsFiniteSet(Held(v))
      /\ Cardinality(Held(v)) = Cardinality(With(v, "reserved")) + Cardinality(With(v, "used"))
                                 - Cardinality(With(v, "reserved") \cap With(v, "used"))
  BY <1>1, FS_Union DEF Held
<1>5. /\ voucher[v].reserved = Cardinality(With(v, "reserved"))
      /\ voucher[v].used = Cardinality(With(v, "used"))
  BY DEF IInv, CountersMatchUsages
<1> QED BY <1>1, <1>3, <1>4, <1>5 DEF Taken

(* The customer of an order stays.                                         *)
LEMMA CustomersStay ==
  ASSUME IInv, [Next]_vars, NEW o \in Orders
  PROVE  order'[o].customer = order[o].customer
<1>1. order \in [Orders -> OrderRecords] BY DEF IInv, TypeOK
<1>2. ASSUME NEW x \in Orders,
             CreateOrder(x) \/ RemoveVoucher(x) \/ DiscardOrder(x) \/ CancelOrder(x)
               \/ ReserveQr(x) \/ ReserveCash(x) \/ FailQr(x) \/ PayOrder(x) \/ CompleteOrder(x)
               \/ ConfirmCash(x)
      PROVE  order'[o].customer = order[o].customer
  BY <1>1, <1>2 DEF CreateOrder, RemoveVoucher, DropVoucher, DiscardOrder, CancelOrder, ReserveQr,
     ReserveCash, FailQr, PayOrder, CompleteOrder, ConfirmCash, OrderRecords
<1>3. ASSUME NEW x \in Orders, NEW v \in Vouchers,
             CreateOrderWith(x, v) \/ ApplyVoucher(x, v) \/ CancelUnreplaced(x, v)
      PROVE  order'[o].customer = order[o].customer
  BY <1>1, <1>3 DEF CreateOrderWith, ApplyVoucher, CancelUnreplaced, OrderRecords
<1>4. ASSUME VoucherStep \/ SaveVoucher \/ UNCHANGED vars PROVE order' = order
  BY <1>4 DEF VoucherStep, SaveVoucher, CreateVoucher, RedeemReward, UpdateVoucher, EnableVoucher,
     ExpireVoucher, CheckVoucher, vars
<1> QED BY <1>2, <1>3, <1>4 DEF Next, OrderStep

(* Only the reservation by an order adds one to the uses of a code.        *)
LEMMA OnlyReserveAdds ==
  ASSUME IInv, [Next]_vars, NEW v \in Vouchers, NEW o \in Orders,
         o \notin Held(v), o \in Held(v)'
  PROVE  MayReserve(v, o) /\ usage' = [usage EXCEPT ![v][o] = "reserved"]
<1>1. usage \in [Vouchers -> [Orders -> UsageStatuses]] BY DEF IInv, TypeOK
<1>2. usage[v][o] \notin {"reserved", "used"} /\ usage'[v][o] \in {"reserved", "used"}
  BY DEF Held, With
<1>3. ASSUME NEW x \in Orders, NEW w \in Vouchers, CreateOrderWith(x, w) \/ ApplyVoucher(x, w)
      PROVE  MayReserve(v, o) /\ usage' = [usage EXCEPT ![v][o] = "reserved"]
  <2>1. MayReserve(w, x) /\ Reserve(w, x) BY <1>3 DEF CreateOrderWith, ApplyVoucher
  <2>2. usage' = [usage EXCEPT ![w][x] = "reserved"] BY <1>2, <2>1 DEF Reserve
  <2>3. w = v /\ x = o BY <1>1, <1>2, <2>2
  <2> QED BY <2>1, <2>2, <2>3
<1>4. ASSUME NEW x \in Orders, RemoveVoucher(x) \/ DiscardOrder(x) PROVE FALSE
  <2>1. usage' = ReleasedUsage(x) BY <1>4 DEF RemoveVoucher, DropVoucher, DiscardOrder
  <2>2. usage'[v][o] = usage[v][o] \/ usage'[v][o] = "restored" BY <1>1, <2>1 DEF ReleasedUsage
  <2> QED BY <1>2, <2>2
<1>5. ASSUME NEW x \in Orders, CancelOrder(x) \/ \E w \in Vouchers : CancelUnreplaced(x, w)
      PROVE  FALSE
  <2>1. usage' = [w \in Vouchers |-> [usage[w] EXCEPT ![x] = Back(usage[w][x])]]
    BY <1>5, CancelledIs DEF CancelOrder, CancelUnreplaced
  <2>2. usage'[v][o] = usage[v][o] \/ usage'[v][o] = Back(usage[v][o]) BY <1>1, <2>1
  <2> QED BY <1>2, <2>2 DEF Back
<1>6. ASSUME NEW x \in Orders, PayOrder(x) \/ ConfirmCash(x) PROVE FALSE
  <2>1. MarkUsed(x) BY <1>6 DEF PayOrder, ConfirmCash
  <2> DEFINE w == order[x].voucher
  <2>2. usage' = usage \/ (usage[w][x] = "reserved" /\ usage' = [usage EXCEPT ![w][x] = "used"])
    BY <2>1 DEF MarkUsed
  <2> HIDE DEF w
  <2> QED BY <1>1, <1>2, <2>2
<1>7. ASSUME NEW x \in Orders,
             CreateOrder(x) \/ ReserveQr(x) \/ ReserveCash(x) \/ FailQr(x) \/ CompleteOrder(x)
      PROVE  usage' = usage
  BY <1>7 DEF CreateOrder, ReserveQr, ReserveCash, FailQr, CompleteOrder
<1>8. ASSUME VoucherStep \/ SaveVoucher \/ UNCHANGED vars PROVE usage' = usage
  BY <1>8 DEF VoucherStep, SaveVoucher, CreateVoucher, RedeemReward, UpdateVoucher, EnableVoucher,
     ExpireVoucher, CheckVoucher, vars
<1> QED BY <1>2, <1>3, <1>4, <1>5, <1>6, <1>7, <1>8 DEF Next, OrderStep

LEMMA StepLimitKept ==
  ASSUME IInv, [Next]_vars, NEW v \in Vouchers, NEW o \in Orders,
         o \notin Held(v), o \in Held(v)'
  PROVE  /\ Cardinality(Held(v)') <= voucher[v].limit
         /\ ~IsPersonal(v) => Cardinality(UsesOf(v, order[o].customer)') <= voucher[v].perUser
<1>1. /\ usage \in [Vouchers -> [Orders -> UsageStatuses]]
      /\ voucher[v] \in VoucherRecords
  BY DEF IInv, TypeOK
<1>2. MayReserve(v, o) /\ usage' = [usage EXCEPT ![v][o] = "reserved"] BY OnlyReserveAdds
<1>3. \A x \in Orders : usage'[v][x] = IF x = o THEN "reserved" ELSE usage[v][x] BY <1>1, <1>2
<1>4. voucher[v].limit \in Int /\ voucher[v].perUser \in Int BY <1>1, VouchersAssumption DEF VoucherRecords
<1>5. Cardinality(Held(v)') <= voucher[v].limit
  <2>1. Held(v)' = Held(v) \cup {o} BY <1>3 DEF Held, With
  <2>2. Cardinality(Held(v)') = Taken(v) + 1 BY <2>1, HeldIsTaken, OneMore
  <2>3. Taken(v) < voucher[v].limit /\ Taken(v) \in Nat BY <1>2, HeldIsTaken DEF MayReserve
  <2> QED BY <1>4, <2>2, <2>3
<1>6. ASSUME ~IsPersonal(v)
      PROVE  Cardinality(UsesOf(v, order[o].customer)') <= voucher[v].perUser
  <2> DEFINE S == UsesOf(v, order[o].customer)
  <2>1. \A x \in Orders : order'[x].customer = order[x].customer BY CustomersStay
  <2>2. S' = S \cup {o} BY <1>3, <2>1 DEF UsesOf
  <2>3. o \notin S BY DEF UsesOf, Held, With
  <2>4. S \subseteq Orders BY DEF UsesOf
  <2>5. IsFiniteSet(S) BY <2>4, FS_Subset, VouchersAssumption
  <2>6. Cardinality(S) < voucher[v].perUser BY <1>2, <1>6 DEF MayReserve
  <2> HIDE DEF S
  <2>7. Cardinality(S \cup {o}) = Cardinality(S) + 1 /\ Cardinality(S) \in Nat
    BY <2>3, <2>5, OneMore
  <2>8. Cardinality(S') <= voucher[v].perUser BY <1>4, <2>2, <2>6, <2>7
  <2> QED BY <2>8 DEF S
<1> QED BY <1>5, <1>6

(* An order gets the last use of a code once.                              *)
THEOREM LimitKeptCorrect == Spec => LimitKept
<1>1. IInv /\ [Next]_vars =>
        [\A v \in Vouchers, o \in Orders :
            o \notin Held(v) /\ o \in Held(v)' =>
              /\ Cardinality(Held(v)') <= voucher[v].limit
              /\ ~IsPersonal(v) => Cardinality(UsesOf(v, order[o].customer)')
                                      <= voucher[v].perUser]_vars
  BY StepLimitKept
<1> QED BY <1>1, VouchersInvariant, PTL DEF Spec, LimitKept

-----------------------------------------------------------------------------
(* The steps of LimitedUses.                                               *)

(* LimitedUses counts as Vouchers does.                                    *)
LEMMA SameCardinality == ASSUME NEW S PROVE Limited!Cardinality(S) = Cardinality(S)
BY DEF Limited!Cardinality, Cardinality

(* What UseOf says of a use.                                               *)
LEMMA UseIs ==
  ASSUME TypeOK, NEW v \in Vouchers, NEW o \in Orders
  PROVE  /\ UseOf(v, o) = "none" <=> o \notin Held(v)
         /\ UseOf(v, o) = "reserved" <=> usage[v][o] = "reserved"
         /\ UseOf(v, o) \in {"none", "reserved", "spent"}
BY DEF UseOf, Held, With

(* No order holds two codes.                                               *)
LEMMA HeldIsCarried ==
  ASSUME IInv, NEW v \in Vouchers, NEW o \in Orders, UseOf(v, o) # "none"
  PROVE  order[o].voucher = v
BY UseIs DEF IInv, DiscountBacked, Held, With

(* What one order has of one code changes.                                 *)
LEMMA UseBecomes ==
  ASSUME NEW v \in Vouchers, NEW o \in Orders, NEW u,
         \A w \in Vouchers, x \in Orders :
            UseOf(w, x)' = IF w = v /\ x = o THEN u ELSE UseOf(w, x)
  PROVE  [w \in Vouchers |-> [x \in Orders |-> UseOf(w, x)]]'
           = [[w \in Vouchers |-> [x \in Orders |-> UseOf(w, x)]] EXCEPT ![v][o] = u]
<1> DEFINE use == [w \in Vouchers |-> [x \in Orders |-> UseOf(w, x)]]
<1>1. [use EXCEPT ![v][o] = u] = [w \in Vouchers |-> [x \in Orders |->
                                    IF w = v /\ x = o THEN u ELSE UseOf(w, x)]]
  OBVIOUS
<1>2. use' = [w \in Vouchers |-> [x \in Orders |-> IF w = v /\ x = o THEN u ELSE UseOf(w, x)]]
  OBVIOUS
<1> QED BY <1>1, <1>2

(* Whatever becomes of the codes, they have limits.                        *)
LEMMA LimitsAreLimits ==
  ASSUME TypeOK
  PROVE  [v \in Vouchers |-> [all |-> voucher[v].limit,
                              each |-> IF IsPersonal(v) THEN 1 ELSE voucher[v].perUser]]
            \in Limited!Limits
<1>1. ASSUME NEW v \in Vouchers
      PROVE  /\ voucher[v].limit \in Nat
             /\ (IF IsPersonal(v) THEN 1 ELSE voucher[v].perUser) \in Nat
  <2>1. voucher[v].limit \in 0 .. MaxLimit /\ voucher[v].perUser \in 1 .. MaxLimit
    BY DEF TypeOK, VoucherRecords
  <2> QED BY <2>1, VouchersAssumption
<1> QED BY <1>1 DEF Limited!Limits

(* So they have after a step.                                              *)
LEMMA NextLimits ==
  ASSUME IInv, [Next]_vars
  PROVE  [v \in Vouchers |-> [all |-> voucher[v].limit,
                              each |-> IF IsPersonal(v) THEN 1 ELSE voucher[v].perUser]]'
            \in Limited!Limits
<1>1. ASSUME NEW v \in Vouchers
      PROVE  /\ voucher'[v].limit \in Nat
             /\ (IF IsPersonal(v)' THEN 1 ELSE voucher'[v].perUser) \in Nat
  <2>1. voucher'[v].limit \in 0 .. MaxLimit /\ voucher'[v].perUser \in 1 .. MaxLimit
    BY StepIInv DEF IInv, TypeOK, VoucherRecords
  <2> QED BY <2>1, VouchersAssumption
<1> QED BY <1>1 DEF Limited!Limits

(* And the customers of the orders stay theirs.                            *)
LEMMA CustomersAre ==
  ASSUME IInv, [Next]_vars
  PROVE  [o \in Orders |-> order[o].customer]' = [o \in Orders |-> order[o].customer]
BY CustomersStay

(* A step that moves no use sets limits, if it does anything.              *)
LEMMA LimitsSet ==
  ASSUME IInv, [Next]_vars,
         \A w \in Vouchers, x \in Orders : UseOf(w, x)' = UseOf(w, x)
  PROVE  Limited!Next
<1>1. [w \in Vouchers |-> [x \in Orders |-> UseOf(w, x)]]'
        = [w \in Vouchers |-> [x \in Orders |-> UseOf(w, x)]]
  OBVIOUS
<1>2. Limited!SetLimits BY <1>1, NextLimits, CustomersAre DEF Limited!SetLimits
<1> QED BY <1>2 DEF Limited!Next

(* An order gives back all it has: that is one code at most.               *)
LEMMA UseGivenBack ==
  ASSUME IInv, [Next]_vars, NEW o \in Orders,
         \A w \in Vouchers, x \in Orders : UseOf(w, x)' = IF x = o THEN "none" ELSE UseOf(w, x)
  PROVE  Limited!Next
<1>1. CASE \A w \in Vouchers : UseOf(w, o) = "none" BY <1>1, LimitsSet
<1>2. ASSUME NEW v \in Vouchers, UseOf(v, o) # "none" PROVE Limited!Next
  <2>1. \A w \in Vouchers : w # v => UseOf(w, o) = "none" BY <1>2, HeldIsCarried
  <2>2. \A w \in Vouchers, x \in Orders :
           UseOf(w, x)' = IF w = v /\ x = o THEN "none" ELSE UseOf(w, x)
    BY <2>1
  <2>3. Limited!GiveBack(o, v)
    BY <1>2, <2>2, UseBecomes, NextLimits, CustomersAre DEF Limited!GiveBack
  <2> QED BY <2>3 DEF Limited!Next
<1> QED BY <1>1, <1>2

LEMMA GiveBackLimited ==
  ASSUME IInv, [Next]_vars, NEW o \in Orders,
         \/ RemoveVoucher(o) \/ DiscardOrder(o) \/ CancelOrder(o)
         \/ \E v \in Vouchers : CancelUnreplaced(o, v)
  PROVE  Limited!Next
<1>1. usage \in [Vouchers -> [Orders -> UsageStatuses]] BY DEF IInv, TypeOK
<1>2. CASE RemoveVoucher(o) \/ DiscardOrder(o)
  <2>1. usage' = ReleasedUsage(o) /\ order[o].payment = "none"
    BY <1>2 DEF RemoveVoucher, DropVoucher, DiscardOrder
  <2>2. \A w \in Vouchers : usage[w][o] # "used" BY <2>1, HeldIsDue DEF Due
  <2>3. \A w \in Vouchers, x \in Orders :
           usage'[w][x] = IF x = o /\ usage[w][x] = "reserved" THEN "restored" ELSE usage[w][x]
    BY <1>1, <2>1 DEF ReleasedUsage
  <2>4. \A w \in Vouchers, x \in Orders : UseOf(w, x)' = IF x = o THEN "none" ELSE UseOf(w, x)
    BY <2>2, <2>3 DEF UseOf
  <2> QED BY <2>4, UseGivenBack
<1>3. CASE CancelOrder(o) \/ \E v \in Vouchers : CancelUnreplaced(o, v)
  <2>1. usage' = [w \in Vouchers |-> [usage[w] EXCEPT ![o] = Back(usage[w][o])]]
    BY <1>3, CancelledIs DEF CancelOrder, CancelUnreplaced
  <2>2. \A w \in Vouchers, x \in Orders :
           usage'[w][x] = IF x = o THEN Back(usage[w][x]) ELSE usage[w][x]
    BY <1>1, <2>1
  <2>3. \A w \in Vouchers, x \in Orders : UseOf(w, x)' = IF x = o THEN "none" ELSE UseOf(w, x)
    BY <1>1, <2>2 DEF UseOf, Back, UsageStatuses
  <2> QED BY <2>3, UseGivenBack
<1> QED BY <1>2, <1>3

(* A code that is reserved or used keeps its limits and its owner.         *)
LEMMA LimitsStay ==
  ASSUME \A w \in Vouchers : /\ voucher'[w].limit = voucher[w].limit
                             /\ voucher'[w].perUser = voucher[w].perUser
                             /\ voucher'[w].owner = voucher[w].owner
  PROVE  [v \in Vouchers |-> [all |-> voucher[v].limit,
                              each |-> IF IsPersonal(v) THEN 1 ELSE voucher[v].perUser]]'
           = [v \in Vouchers |-> [all |-> voucher[v].limit,
                                  each |-> IF IsPersonal(v) THEN 1 ELSE voucher[v].perUser]]
<1>1. \A v \in Vouchers : IsPersonal(v)' <=> IsPersonal(v) BY DEF IsPersonal
<1> QED BY <1>1

LEMMA ReserveLimited ==
  ASSUME IInv, [Next]_vars, NEW o \in Orders, NEW v \in Vouchers,
         CreateOrderWith(o, v) \/ ApplyVoucher(o, v)
  PROVE  Limited!Next
<1>1. /\ voucher \in [Vouchers -> VoucherRecords]
      /\ usage \in [Vouchers -> [Orders -> UsageStatuses]]
  BY DEF IInv, TypeOK
<1>2. MayReserve(v, o) /\ Reserve(v, o) BY DEF CreateOrderWith, ApplyVoucher
<1>3. order[o].voucher = None
  BY DEF IInv, OrdersSound, OrderSound, CreateOrderWith, ApplyVoucher
<1>4. \A w \in Vouchers : UseOf(w, o) = "none" BY <1>3, HeldIsCarried, VouchersAssumption
<1>5. usage[v][o] # "reserved" BY <1>4, UseIs DEF IInv
<1>6. /\ usage' = [usage EXCEPT ![v][o] = "reserved"]
      /\ voucher' = [voucher EXCEPT ![v].reserved = voucher[v].reserved + 1,
                                    ![v].holder = IF IsPersonal(v) THEN o ELSE voucher[v].holder]
  BY <1>2, <1>5 DEF Reserve
<1>7. \A w \in Vouchers, x \in Orders :
         UseOf(w, x)' = IF w = v /\ x = o THEN "reserved" ELSE UseOf(w, x)
  <2>1. \A w \in Vouchers, x \in Orders :
           usage'[w][x] = IF w = v /\ x = o THEN "reserved" ELSE usage[w][x]
    BY <1>1, <1>6
  <2> QED BY <2>1 DEF UseOf
<1>8. \A w \in Vouchers : /\ voucher'[w].limit = voucher[w].limit
                          /\ voucher'[w].perUser = voucher[w].perUser
                          /\ voucher'[w].owner = voucher[w].owner
  BY <1>1, <1>6 DEF VoucherRecords
<1>9. Limited!Holders(v) = Held(v) BY UseIs DEF IInv, Limited!Holders, Held, With
<1>10. Limited!HoldersOf(v, order[o].customer) = UsesOf(v, order[o].customer)
  BY <1>9 DEF Limited!HoldersOf, UsesOf, Held, With
<1>11. /\ Cardinality(Held(v)) < voucher[v].limit
       /\ Cardinality(UsesOf(v, order[o].customer))
             < (IF IsPersonal(v) THEN 1 ELSE voucher[v].perUser)
  BY <1>2, HeldIsTaken DEF MayReserve
<1>12. /\ [w \in Vouchers |-> [all |-> voucher[w].limit,
              each |-> IF IsPersonal(w) THEN 1 ELSE voucher[w].perUser]][v].all = voucher[v].limit
       /\ [w \in Vouchers |-> [all |-> voucher[w].limit,
              each |-> IF IsPersonal(w) THEN 1 ELSE voucher[w].perUser]][v].each
            = IF IsPersonal(v) THEN 1 ELSE voucher[v].perUser
       /\ [x \in Orders |-> order[x].customer][o] = order[o].customer
       /\ \A w \in Vouchers : [y \in Vouchers |-> [x \in Orders |-> UseOf(y, x)]][w][o] = "none"
  BY <1>4
<1>13. Limited!Reserve(o, v)
  <2>1. [w \in Vouchers |-> [x \in Orders |-> UseOf(w, x)]]'
          = [[w \in Vouchers |-> [x \in Orders |-> UseOf(w, x)]] EXCEPT ![v][o] = "reserved"]
    BY <1>7, UseBecomes
  <2> QED BY <1>8, <1>9, <1>10, <1>11, <1>12, <2>1, LimitsStay, CustomersAre, SameCardinality
      DEF Limited!Reserve
<1> QED BY <1>13 DEF Limited!Next

LEMMA SpendLimited ==
  ASSUME IInv, [Next]_vars, NEW o \in Orders, PayOrder(o) \/ ConfirmCash(o)
  PROVE  Limited!Next
<1>1. /\ voucher \in [Vouchers -> VoucherRecords]
      /\ usage \in [Vouchers -> [Orders -> UsageStatuses]]
      /\ order \in [Orders -> OrderRecords]
  BY DEF IInv, TypeOK
<1>2. MarkUsed(o) BY DEF PayOrder, ConfirmCash
<1>3. PICK v : v = order[o].voucher OBVIOUS
<1>4. CASE v = None \/ order[o].used
  <2>1. usage' = usage BY <1>2, <1>3, <1>4 DEF MarkUsed
  <2> QED BY <2>1, LimitsSet DEF UseOf
<1>5. CASE ~(v = None \/ order[o].used)
  <2>1. v \in Vouchers BY <1>1, <1>3, <1>5 DEF OrderRecords
  <2>2. /\ usage[v][o] = "reserved"
        /\ voucher' = [voucher EXCEPT ![v].reserved = voucher[v].reserved - 1,
                                      ![v].used = voucher[v].used + 1]
        /\ usage' = [usage EXCEPT ![v][o] = "used"]
    BY <1>2, <1>3, <1>5 DEF MarkUsed
  <2>3. \A w \in Vouchers, x \in Orders :
           UseOf(w, x)' = IF w = v /\ x = o THEN "spent" ELSE UseOf(w, x)
    <3>1. \A w \in Vouchers, x \in Orders :
             usage'[w][x] = IF w = v /\ x = o THEN "used" ELSE usage[w][x]
      BY <1>1, <2>1, <2>2
    <3> QED BY <3>1 DEF UseOf
  <2>4. \A w \in Vouchers : /\ voucher'[w].limit = voucher[w].limit
                            /\ voucher'[w].perUser = voucher[w].perUser
                            /\ voucher'[w].owner = voucher[w].owner
    BY <1>1, <2>1, <2>2 DEF VoucherRecords
  <2>5. UseOf(v, o) = "reserved" BY <2>2 DEF UseOf
  <2>6. Limited!Spend(o, v)
    BY <2>1, <2>3, <2>4, <2>5, UseBecomes, LimitsStay, CustomersAre DEF Limited!Spend
  <2> QED BY <2>1, <2>6 DEF Limited!Next
<1> QED BY <1>4, <1>5

LEMMA StepLimited == ASSUME IInv, [Next]_vars PROVE Limited!Next
<1>1. ASSUME NEW o \in Orders,
             CreateOrder(o) \/ ReserveQr(o) \/ ReserveCash(o) \/ FailQr(o) \/ CompleteOrder(o)
      PROVE  usage' = usage
  BY <1>1 DEF CreateOrder, ReserveQr, ReserveCash, FailQr, CompleteOrder
<1>2. ASSUME VoucherStep \/ SaveVoucher \/ UNCHANGED vars PROVE usage' = usage
  BY <1>2 DEF VoucherStep, SaveVoucher, CreateVoucher, RedeemReward, UpdateVoucher, EnableVoucher,
     ExpireVoucher, CheckVoucher, vars
<1>3. ASSUME usage' = usage PROVE Limited!Next BY <1>3, LimitsSet DEF UseOf
<1> QED BY <1>1, <1>2, <1>3, GiveBackLimited, ReserveLimited, SpendLimited DEF Next, OrderStep

(* Vouchers implements LimitedUses: counters, holders and records of uses  *)
(* that reservations, payments, removals, cancellations and changed limits *)
(* leave behind are those of codes of which nobody gets a use beyond a     *)
(* limit and every order has one at most (voucher.service.ts:144, :191).   *)
THEOREM KeepsLimitsCorrect == Spec => KeepsLimits
<1>1. Init => Limited!Init
  <2>1. ASSUME Init PROVE Limited!Init
    <3>1. PICK customer \in [Orders -> Customers] :
             order = [o \in Orders |-> [status |-> "none", customer |-> customer[o],
                                        voucher |-> None, used |-> FALSE, payment |-> "none"]]
      BY <2>1 DEF Init
    <3>2. [o \in Orders |-> order[o].customer] \in [Orders -> Customers] BY <3>1
    <3>3. TypeOK BY <2>1, InitIInv DEF IInv
    <3>4. \A w \in Vouchers, x \in Orders : UseOf(w, x) = "none" BY <2>1 DEF Init, UseOf
    <3> QED BY <3>2, <3>3, <3>4, LimitsAreLimits DEF Limited!Init
  <2> QED BY <2>1
<1>2. IInv /\ [Next]_vars => [Limited!Next]_(Limited!uses) BY StepLimited
<1> QED BY <1>1, <1>2, VouchersInvariant, PTL DEF Spec, KeepsLimits, Limited!Spec

(* So no order has uses of two codes (voucher.service.ts:144).             *)
THEOREM OneCodeCorrect == Spec => []Limited!OneCode
<1>1. IInv => Limited!OneCode
  BY HeldIsCarried DEF Limited!OneCode, Limited!Holders
<1> QED BY <1>1, VouchersInvariant, PTL

===============================================================================
