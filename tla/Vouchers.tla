-------------------------------- MODULE Vouchers --------------------------------
(***************************************************************************)
(* Voucher codes and the orders that use them (voucher.service.ts): codes  *)
(* of the shop with a limit, and personal ones that a customer redeemed    *)
(* for points (reward.service.ts) or got because no replacement was found  *)
(* for him (orderCancellation.service.ts).                                 *)
(*                                                                         *)
(* An order reserves a use when it is created with a code or gets one      *)
(* before it is paid; the payment turns the reservation into a use; the    *)
(* removal of the code, the disposal of the order and its cancellation     *)
(* give it back.  Each is one MongoDB transaction that writes the order,   *)
(* so that two of them on one order, or on one voucher, conflict: each is  *)
(* one action.  The administrator's pause and deletion of a code look at   *)
(* the orders first and save the code later.                               *)
(*                                                                         *)
(* Amounts are left out: a code that does not fit an order, or does not    *)
(* discount it, is a request that changes nothing.  Orders of the time     *)
(* before reservations, which carry a code and hold no use, are left out.  *)
(***************************************************************************)
EXTENDS Integers, FiniteSets

CONSTANTS
    Orders, Vouchers, Customers,
    None,          \* no order, no voucher, no owner
    MaxLimit       \* bound: uses a code can be given, of all or of one customer;
                   \* no limit is one that is never reached

ASSUME VouchersAssumption ==
    /\ None \notin Orders \cup Vouchers \cup Customers
    /\ IsFiniteSet(Orders)
    /\ MaxLimit \in Nat \ {0}

VARIABLES
    voucher,   \* Voucher
    usage,     \* VoucherUsage of a voucher and an order
    order,     \* Order, with its voucherSnapshot and its payment
    admin      \* what the administrator is doing

vars == <<voucher, usage, order, admin>>

-----------------------------------------------------------------------------
(* Records.                                                                *)

(* holder: reservedOrderId, of a personal voucher.                         *)
VoucherRecords ==
    [status : {"none", "active", "inactive", "expired", "deleted"},
     owner : Customers \cup {None}, holder : Orders \cup {None},
     limit : 0 .. MaxLimit, perUser : 1 .. MaxLimit, used : Nat, reserved : Nat]

UsageStatuses == {"none", "reserved", "used", "restored"}

(* open: neither completed, cancelled nor discarded.  used: voucherUsedAt. *)
OrderRecords ==
    [status : {"none", "open", "completed", "cancelled", "discarded"},
     customer : Customers, voucher : Vouchers \cup {None}, used : BOOLEAN,
     payment : {"none", "qr", "cash", "paid"}]

Idle == [at |-> "idle", voucher |-> None]

AdminRecords == {Idle} \cup [at : {"inactive", "deleted"}, voucher : Vouchers]

NoCode == [status |-> "none", owner |-> None, holder |-> None, limit |-> 0,
           perUser |-> 1, used |-> 0, reserved |-> 0]

Init ==
    /\ voucher = [v \in Vouchers |-> NoCode]
    /\ usage = [v \in Vouchers |-> [o \in Orders |-> "none"]]
    /\ \E customer \in [Orders -> Customers] :
          order = [o \in Orders |-> [status |-> "none", customer |-> customer[o],
                                     voucher |-> None, used |-> FALSE, payment |-> "none"]]
    /\ admin = Idle

IsLive(o) == order[o].status \in {"open", "completed"}

IsPersonal(v) == voucher[v].owner # None

-----------------------------------------------------------------------------
(* A use of a code is reserved, taken and given back.                      *)

(* Wrong: uses that are only reserved do not count.                        *)
TakenUsed(v) == voucher[v].used

Taken(v) == voucher[v].used + voucher[v].reserved

UsesOf(v, customer) ==
    {o \in Orders : order[o].customer = customer /\ usage[v][o] \in {"reserved", "used"}}

(* A personal voucher may be taken from an order that no longer carries it.*)
IsHeldElsewhere(v, o) ==
    LET h == voucher[v].holder
    IN  h \notin {None, o} /\ IsLive(h) /\ order[h].voucher = v

(* Wrong: the limit of each customer is not looked at.                     *)
MayReserveOften(v, o) ==
    LET customer == order[o].customer
    IN  /\ voucher[v].owner \in {None, customer}
        /\ voucher[v].status = "active"
        /\ Taken(v) < voucher[v].limit
        /\ IsPersonal(v) => ~IsHeldElsewhere(v, o)
        /\ usage[v][o] # "used"

(* resolveVoucherForAmount and the conditions of reservePersonalVoucher.   *)
MayReserve(v, o) ==
    LET customer == order[o].customer
        perUser == IF IsPersonal(v) THEN 1 ELSE voucher[v].perUser
    IN  /\ voucher[v].owner \in {None, customer}
        /\ voucher[v].status = "active"
        /\ Taken(v) < voucher[v].limit
        /\ Cardinality(UsesOf(v, customer)) < perUser
        /\ IsPersonal(v) => ~IsHeldElsewhere(v, o)
        /\ usage[v][o] # "used"

(* reservePersonalVoucher.                                                 *)
Reserve(v, o) ==
    IF usage[v][o] = "reserved" THEN UNCHANGED <<voucher, usage>>
    ELSE /\ voucher' = [voucher EXCEPT ![v].reserved = voucher[v].reserved + 1,
                                       ![v].holder = IF IsPersonal(v) THEN o
                                                     ELSE voucher[v].holder]
         /\ usage' = [usage EXCEPT ![v][o] = "reserved"]

(* releaseVoucherReservation: an order reserves one voucher at most.       *)
Released(o) ==
    [v \in Vouchers |->
       IF usage[v][o] # "reserved" THEN voucher[v]
       ELSE [voucher[v] EXCEPT
               !.reserved = IF voucher[v].reserved > 0 THEN voucher[v].reserved - 1 ELSE 0,
               !.holder = IF voucher[v].holder = o THEN None ELSE voucher[v].holder]]

ReleasedUsage(o) ==
    [v \in Vouchers |->
       IF usage[v][o] = "reserved" THEN [usage[v] EXCEPT ![o] = "restored"] ELSE usage[v]]

(* Wrong: the reservation stays beside the use.                            *)
MarkUsedBeside(o) ==
    LET v == order[o].voucher
    IN  IF v = None \/ order[o].used THEN UNCHANGED <<voucher, usage>>
        ELSE /\ IsPersonal(v) => voucher[v].holder = o /\ voucher[v].used < 1
             /\ usage[v][o] = "reserved" /\ voucher[v].reserved > 0
             /\ voucher' = [voucher EXCEPT ![v].used = voucher[v].used + 1]
             /\ usage' = [usage EXCEPT ![v][o] = "used"]

(* markOrderVoucherAsUsed: what it refuses, it refuses with the payment.   *)
MarkUsed(o) ==
    LET v == order[o].voucher
    IN  IF v = None \/ order[o].used THEN UNCHANGED <<voucher, usage>>
        ELSE /\ IsPersonal(v) => voucher[v].holder = o /\ voucher[v].used < 1
             /\ usage[v][o] = "reserved" /\ voucher[v].reserved > 0
             /\ voucher' = [voucher EXCEPT ![v].reserved = voucher[v].reserved - 1,
                                           ![v].used = voucher[v].used + 1]
             /\ usage' = [usage EXCEPT ![v][o] = "used"]

-----------------------------------------------------------------------------
(* The customer's orders.                                                  *)

(* createOrder, without a code and with one.                               *)
CreateOrder(o) ==
    /\ order[o].status = "none"
    /\ order' = [order EXCEPT ![o].status = "open"]
    /\ UNCHANGED <<voucher, usage, admin>>

CreateOrderWith(o, v) ==
    /\ order[o].status = "none"
    /\ MayReserve(v, o)
    /\ Reserve(v, o)
    /\ order' = [order EXCEPT ![o].status = "open", ![o].voucher = v]
    /\ UNCHANGED admin

(* applyVoucher.                                                           *)
ApplyVoucher(o, v) ==
    /\ order[o].status = "open" /\ order[o].voucher = None
    /\ order[o].payment = "none"
    /\ MayReserve(v, o)
    /\ Reserve(v, o)
    /\ order' = [order EXCEPT ![o].voucher = v]
    /\ UNCHANGED admin

DropVoucher(o) ==
    LET v == order[o].voucher
        released == Released(o)
        free == /\ released[v].holder = o /\ released[v].owner = order[o].customer
                /\ released[v].used = 0
    IN  /\ order[o].status = "open" /\ v # None
        /\ voucher' = IF free THEN [released EXCEPT ![v].holder = None] ELSE released
        /\ usage' = ReleasedUsage(o)
        /\ order' = [order EXCEPT ![o].voucher = None]
        /\ UNCHANGED admin

(* Wrong: the code can be removed from an order that is paid.              *)
RemoveVoucherPaid(o) == order[o].payment \in {"none", "paid"} /\ DropVoucher(o)

(* removeVoucher.                                                          *)
RemoveVoucher(o) == order[o].payment = "none" /\ DropVoucher(o)

(* discardUnpaidOrder.                                                     *)
DiscardOrder(o) ==
    /\ order[o].status = "open" /\ order[o].payment = "none"
    /\ voucher' = Released(o)
    /\ usage' = ReleasedUsage(o)
    /\ order' = [order EXCEPT ![o].status = "discarded"]
    /\ UNCHANGED admin

Granted(customer) == [NoCode EXCEPT !.status = "active", !.owner = customer, !.limit = 1]

(* cancelOrdersWithSettlement gives a use back too.                        *)
Restored(o, held) ==
    LET v == order[o].voucher
    IN  IF v # None /\ order[o].used /\ held[v].used > 0
        THEN [held EXCEPT ![v].used = held[v].used - 1]
        ELSE held

RestoredUsage(o, held) ==
    LET v == order[o].voucher
    IN  IF v # None /\ order[o].used /\ held[v][o] = "used"
        THEN [held EXCEPT ![v][o] = "restored"]
        ELSE held

(* cancelOrdersWithSettlement, as far as vouchers go.                      *)
CancelOrder(o) ==
    /\ order[o].status = "open"
    /\ voucher' = Restored(o, Released(o))
    /\ usage' = RestoredUsage(o, ReleasedUsage(o))
    /\ order' = [order EXCEPT ![o].status = "cancelled"]
    /\ UNCHANGED admin

(* The same when no replacement was found for the provider: the customer   *)
(* gets a voucher of his own.                                              *)
CancelUnreplaced(o, v) ==
    /\ order[o].status = "open"
    /\ voucher[v].status = "none"
    /\ voucher' = [Restored(o, Released(o)) EXCEPT ![v] = Granted(order[o].customer)]
    /\ usage' = RestoredUsage(o, ReleasedUsage(o))
    /\ order' = [order EXCEPT ![o].status = "cancelled"]
    /\ UNCHANGED admin

(* reserveExternalPayment; cash can be left for a QR.                      *)
ReserveQr(o) ==
    /\ order[o].status = "open" /\ order[o].payment \in {"none", "cash"}
    /\ order' = [order EXCEPT ![o].payment = "qr"]
    /\ UNCHANGED <<voucher, usage, admin>>

ReserveCash(o) ==
    /\ order[o].status = "open" /\ order[o].payment = "none"
    /\ order' = [order EXCEPT ![o].payment = "cash"]
    /\ UNCHANGED <<voucher, usage, admin>>

(* A QR payment fails: it locks the order no longer.                       *)
FailQr(o) ==
    /\ order[o].status = "open" /\ order[o].payment = "qr"
    /\ order' = [order EXCEPT ![o].payment = "none"]
    /\ UNCHANGED <<voucher, usage, admin>>

(* createWalletPayment and syncPaidPayosPaymentToOrder, of a QR that may   *)
(* have failed before, and that is synced again.                           *)
PayOrder(o) ==
    /\ order[o].status = "open"
    /\ MarkUsed(o)
    /\ order' = [order EXCEPT ![o].payment = "paid", ![o].used = order[o].voucher # None]
    /\ UNCHANGED admin

(* completeOrder, and confirmCashPayment after it.                         *)
CompleteOrder(o) ==
    /\ order[o].status = "open" /\ order[o].payment \in {"cash", "paid"}
    /\ order' = [order EXCEPT ![o].status = "completed"]
    /\ UNCHANGED <<voucher, usage, admin>>

ConfirmCash(o) ==
    /\ order[o].status = "completed" /\ order[o].payment = "cash"
    /\ MarkUsed(o)
    /\ order' = [order EXCEPT ![o].payment = "paid", ![o].used = order[o].voucher # None]
    /\ UNCHANGED admin

-----------------------------------------------------------------------------
(* The codes.                                                              *)

(* createAdminVoucher.                                                     *)
CreateVoucher(v, limit, perUser, status) ==
    /\ voucher[v].status = "none"
    /\ voucher' = [voucher EXCEPT ![v] = [NoCode EXCEPT !.status = status, !.limit = limit,
                                                        !.perUser = perUser]]
    /\ UNCHANGED <<usage, order, admin>>

(* redeemReward.                                                           *)
RedeemReward(v, customer) ==
    /\ voucher[v].status = "none"
    /\ voucher' = [voucher EXCEPT ![v] = Granted(customer)]
    /\ UNCHANGED <<usage, order, admin>>

(* updateAdminVoucher: the new limits may be lower than what is taken, and *)
(* new dates bring back a code that has expired.                           *)
UpdateVoucher(v, limit, perUser, status) ==
    /\ voucher[v].status \in {"active", "inactive", "expired"} /\ ~IsPersonal(v)
    /\ voucher' = [voucher EXCEPT ![v].limit = limit, ![v].perUser = perUser,
                                  ![v].status = status]
    /\ UNCHANGED <<usage, order, admin>>

(* enableAdminVoucher.                                                     *)
EnableVoucher(v) ==
    /\ voucher[v].status = "inactive"
    /\ voucher' = [voucher EXCEPT ![v].status = "active"]
    /\ UNCHANGED <<usage, order, admin>>

ExpireVoucher(v) ==
    /\ voucher[v].status = "active"
    /\ voucher' = [voucher EXCEPT ![v].status = "expired"]
    /\ UNCHANGED <<usage, order, admin>>

(* disableAdminVoucher and deleteAdminVoucher look at a personal voucher   *)
(* and the order that holds it; then they save.                            *)
CheckVoucher(v, status) ==
    /\ admin = Idle
    /\ voucher[v].status \in {"active", "inactive", "expired"}
    /\ IsPersonal(v) /\ voucher[v].used = 0 => ~IsHeldElsewhere(v, None)
    /\ status = "deleted" /\ IsPersonal(v) => voucher[v].used = 0
    /\ admin' = [at |-> status, voucher |-> v]
    /\ UNCHANGED <<voucher, usage, order>>

SaveVoucher ==
    /\ admin # Idle
    /\ voucher' = [voucher EXCEPT ![admin.voucher].status = admin.at]
    /\ admin' = Idle
    /\ UNCHANGED <<usage, order>>

-----------------------------------------------------------------------------
OrderStep ==
    \E o \in Orders :
        \/ CreateOrder(o)
        \/ \E v \in Vouchers : CreateOrderWith(o, v) \/ ApplyVoucher(o, v)
        \/ RemoveVoucher(o) \/ DiscardOrder(o) \/ CancelOrder(o)
        \/ \E v \in Vouchers : CancelUnreplaced(o, v)
        \/ ReserveQr(o) \/ ReserveCash(o) \/ FailQr(o)
        \/ PayOrder(o) \/ CompleteOrder(o) \/ ConfirmCash(o)

VoucherStep ==
    \E v \in Vouchers :
        \/ \E limit \in 0 .. MaxLimit, perUser \in 1 .. MaxLimit,
              status \in {"active", "inactive"} :
               CreateVoucher(v, limit, perUser, status) \/ UpdateVoucher(v, limit, perUser, status)
        \/ \E customer \in Customers : RedeemReward(v, customer)
        \/ EnableVoucher(v) \/ ExpireVoucher(v)
        \/ \E status \in {"inactive", "deleted"} : CheckVoucher(v, status)

Next == OrderStep \/ VoucherStep \/ SaveVoucher

Spec == Init /\ [][Next]_vars

-----------------------------------------------------------------------------
(* Properties.                                                             *)

(* Every record has its type: in particular no counter goes below zero.    *)
TypeOK ==
    /\ voucher \in [Vouchers -> VoucherRecords]
    /\ usage \in [Vouchers -> [Orders -> UsageStatuses]]
    /\ order \in [Orders -> OrderRecords]
    /\ admin \in AdminRecords

With(v, status) == {o \in Orders : usage[v][o] = status}

(* The counters of a code are the uses its orders hold, whatever was       *)
(* applied, removed, paid, cancelled and given back before                 *)
(* (voucher.service.ts:166, orderCancellation.service.ts:1647).            *)
CountersMatchUsages ==
    \A v \in Vouchers :
        /\ voucher[v].reserved = Cardinality(With(v, "reserved"))
        /\ voucher[v].used = Cardinality(With(v, "used"))

(* An order that is not cancelled holds a use of exactly the code it       *)
(* carries, reserved until it is paid and used from then on; no other      *)
(* order holds one; and a personal voucher is held by the one order it     *)
(* names.  So no payment is refused because of its voucher                 *)
(* (voucher.service.ts:144).                                               *)
DiscountBacked ==
    /\ \A o \in Orders, v \in Vouchers :
          LET carries == IsLive(o) /\ order[o].voucher = v IN
          /\ usage[v][o] = "reserved" <=> carries /\ order[o].payment # "paid"
          /\ usage[v][o] = "used" <=> carries /\ order[o].payment = "paid"
          /\ carries /\ IsPersonal(v) => voucher[v].holder = o
    /\ \A o \in Orders : order[o].used => order[o].payment = "paid"

Held(v) == With(v, "reserved") \cup With(v, "used")

(* An order gets the last use of a code once: no step takes a code beyond  *)
(* its limit, or a customer beyond his, although the administrator may     *)
(* lower both below what is taken (voucher.service.ts:191).                *)
LimitKept ==
    [][\A v \in Vouchers, o \in Orders :
          o \notin Held(v) /\ o \in Held(v)' =>
              /\ Cardinality(Held(v)') <= voucher[v].limit
              /\ ~IsPersonal(v) => Cardinality(UsesOf(v, order[o].customer)')
                                      <= voucher[v].perUser]_vars

UseOf(v, o) ==
    CASE usage[v][o] = "reserved" -> "reserved"
      [] usage[v][o] = "used" -> "spent"
      [] OTHER -> "none"

Limited == INSTANCE LimitedUses WITH
    customer <- [o \in Orders |-> order[o].customer],
    limit <- [v \in Vouchers |-> [all |-> voucher[v].limit,
                                  each |-> IF IsPersonal(v) THEN 1 ELSE voucher[v].perUser]],
    use <- [v \in Vouchers |-> [o \in Orders |-> UseOf(v, o)]]

(* Counters, holders and records of uses together keep what LimitedUses    *)
(* promises: whoever gets a use finds it within both limits and has no     *)
(* other, and it is spent only after it was reserved, by the order that    *)
(* reserved it (voucher.service.ts:144, :191).                             *)
KeepsLimits == Limited!Spec

=================================================================================
