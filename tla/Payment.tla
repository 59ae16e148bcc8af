------------------------------- MODULE Payment -------------------------------
(***************************************************************************)
(* What the system vouches for, payment by payment: how the gateway's      *)
(* charges, the payment record, the statuses reported to the outside and   *)
(* the dead letter queue may change, and in which relation.  Nothing here  *)
(* knows of workers, attempts, locks or caches.                            *)
(***************************************************************************)
EXTENDS TLAPS

CONSTANTS
  Keys,               \* payments
  Txns,               \* transactions of the gateway
  MayLose,            \* whether the answer to a charge may be lost, or the
                      \* run that made it die
  MayUnwindRecorded   \* whether a step after the record may still fail

VARIABLES
  charge,   \* per payment, the charge that stands and is accounted for
  lost,     \* per payment, the charges the system does not know it made
  record,   \* per payment, "none", "completed" or "compensated"
  told,     \* per payment, the statuses reported
  letters   \* payments in the dead letter queue

paymentVars == <<charge, lost, record, told, letters>>

Init ==
  /\ charge = [k \in Keys |-> {}] /\ lost = [k \in Keys |-> {}]
  /\ record = [k \in Keys |-> "none"]
  /\ told = [k \in Keys |-> {}] /\ letters = {}

\* Charged: never twice, and not again what is recorded as paid.
Authorize(k, t) ==
  /\ charge[k] = {} /\ record[k] # "completed" /\ t \notin lost[k]
  /\ charge' = [charge EXCEPT ![k] = {t}]
  /\ UNCHANGED <<lost, record, told, letters>>

\* The answer to a charge is lost, or whoever made it dies before the record.
Lose(k, t) ==
  /\ MayLose
  /\ charge[k] \subseteq {t} /\ record[k] # "completed"
  /\ charge' = [charge EXCEPT ![k] = {}]
  /\ lost' = [lost EXCEPT ![k] = @ \cup {t}]
  /\ UNCHANGED <<record, told, letters>>

\* A payment that is recorded has been charged.
Record(k) ==
  /\ charge[k] # {}
  /\ record' = [record EXCEPT ![k] = "completed"]
  /\ UNCHANGED <<charge, lost, told, letters>>

\* A later step failed: the record is taken back while the charge stands.
Reverse(k) ==
  /\ MayUnwindRecorded
  /\ charge[k] # {} /\ record[k] = "completed"
  /\ record' = [record EXCEPT ![k] = "compensated"]
  /\ UNCHANGED <<charge, lost, told, letters>>

\* The charge is refunded and voided.
Void(k) ==
  /\ charge[k] # {} /\ (record[k] = "none" \/ MayUnwindRecorded)
  /\ charge' = [charge EXCEPT ![k] = {}]
  /\ UNCHANGED <<lost, record, told, letters>>

\* Reported completed: on the strength of the record, or of a lost charge of
\* which the gateway says that it has settled.  If a step after the record may
\* fail, its result has been cached, and is believed after the record has been
\* taken back.
Complete(k) ==
  /\ \/ record[k] = "completed" \/ lost[k] # {}
     \/ MayUnwindRecorded /\ record[k] = "compensated"
  /\ told' = [told EXCEPT ![k] = @ \cup {"completed"}]
  /\ UNCHANGED <<charge, lost, record, letters>>

\* Given up: with no charge standing.  The dead letter itself may be lost.
GiveUp(k) ==
  /\ charge[k] = {}
  /\ told' = [told EXCEPT ![k] = @ \cup {"failed"}]
  /\ letters' \in {letters, letters \cup {k}}
  /\ UNCHANGED <<charge, lost, record>>

Next ==
  \E k \in Keys : \/ \E t \in Txns : Authorize(k, t) \/ Lose(k, t)
                  \/ Record(k) \/ Reverse(k) \/ Void(k)
                  \/ Complete(k) \/ GiveUp(k)

Spec == Init /\ [][Next]_paymentVars

-----------------------------------------------------------------------------
\* At most one charge of a payment stands and is accounted for.
OneCharge == \A k \in Keys : \A t, u \in charge[k] : t = u

\* A payment recorded or reported as completed is paid for: a charge stands,
\* or one was lost, which nobody voids.
CompletedIsPaid ==
  \A k \in Keys :
    record[k] = "completed" \/ "completed" \in told[k]
      => charge[k] \cup lost[k] # {}

PaymentType ==
  /\ charge \in [Keys -> SUBSET Txns] /\ lost \in [Keys -> SUBSET Txns]
  /\ record \in [Keys -> {"none", "completed", "compensated"}]
  /\ told \in [Keys -> SUBSET {"completed", "failed"}]

LEMMA PaymentTypeInductive == PaymentType /\ [Next]_paymentVars => PaymentType'
PROOF
<1> SUFFICES ASSUME PaymentType, [Next]_paymentVars
             PROVE  PaymentType'
  OBVIOUS
<1> USE DEF PaymentType
<1>1. CASE UNCHANGED paymentVars
  BY <1>1 DEF paymentVars
<1>2. ASSUME NEW k \in Keys, NEW t \in Txns, Authorize(k, t) \/ Lose(k, t)
      PROVE  PaymentType'
  BY <1>2 DEF Authorize, Lose
<1>3. ASSUME NEW k \in Keys, Record(k) \/ Reverse(k) \/ Void(k)
      PROVE  PaymentType'
  BY <1>3 DEF Record, Reverse, Void
<1>4. ASSUME NEW k \in Keys, Complete(k) \/ GiveUp(k)
      PROVE  PaymentType'
  BY <1>4 DEF Complete, GiveUp
<1> QED
  BY <1>1, <1>2, <1>3, <1>4 DEF Next

\* Whatever is unwound, lost or tried again, no payment has two charges.
THEOREM NeverChargedTwice == Spec => []OneCharge
PROOF
<1>1. Init => PaymentType /\ OneCharge
  BY DEF Init, PaymentType, OneCharge
<1>2. PaymentType /\ OneCharge /\ [Next]_paymentVars => OneCharge'
  <2> SUFFICES ASSUME PaymentType, OneCharge, [Next]_paymentVars
               PROVE  OneCharge'
    OBVIOUS
  <2>1. \A k \in Keys :
          charge'[k] \subseteq charge[k] \/ \E t \in Txns : charge'[k] = {t}
    BY DEF PaymentType, Next, Authorize, Lose, Record, Reverse, Void,
       Complete, GiveUp, paymentVars
  <2> QED BY <2>1 DEF OneCharge
<1> QED
  BY <1>1, <1>2, PaymentTypeInductive, PTL DEF Spec

\* Nothing is taken back once it is recorded: what is true of the record is
\* true of the money.
PaidInv ==
  \A k \in Keys :
    /\ record[k] # "compensated"
    /\ record[k] = "completed" => charge[k] # {}
    /\ "completed" \in told[k] => record[k] = "completed" \/ lost[k] # {}

\* If no step after the record can fail, whoever is told that a payment is
\* completed can rely on it: it was charged, and is not voided later.
THEOREM CompletedStaysPaid ==
  ASSUME ~MayUnwindRecorded
  PROVE  Spec => []CompletedIsPaid
PROOF
<1>1. Init => PaymentType /\ PaidInv
  BY DEF Init, PaymentType, PaidInv
<1>2. PaymentType /\ PaidInv /\ [Next]_paymentVars => PaidInv'
  <2> SUFFICES ASSUME PaymentType, PaidInv, [Next]_paymentVars
               PROVE  PaidInv'
    OBVIOUS
  <2> USE DEF PaymentType, PaidInv
  <2>1. CASE UNCHANGED paymentVars
    BY <2>1 DEF paymentVars
  <2>2. ASSUME NEW k \in Keys, NEW t \in Txns, Authorize(k, t) \/ Lose(k, t)
        PROVE  PaidInv'
    BY <2>2 DEF Authorize, Lose
  <2>3. ASSUME NEW k \in Keys, Record(k) \/ Reverse(k) \/ Void(k)
        PROVE  PaidInv'
    BY <2>3 DEF Record, Reverse, Void
  <2>4. ASSUME NEW k \in Keys, Complete(k) \/ GiveUp(k)
        PROVE  PaidInv'
    BY <2>4 DEF Complete, GiveUp
  <2> QED
    BY <2>1, <2>2, <2>3, <2>4 DEF Next
<1>3. PaidInv => CompletedIsPaid
  BY DEF PaidInv, CompletedIsPaid
<1> QED
  BY <1>1, <1>2, <1>3, PaymentTypeInductive, PTL DEF Spec
=============================================================================
