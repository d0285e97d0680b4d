--------------------------- MODULE ActionReceipt ---------------------------
(***************************************************************************)
(* What the receipt of an idempotency key promises, without the callers,   *)
(* leases, tokens and cleaners that keep the promise: between two expiries *)
(* of its replay window a key has at most one committed effect and at most *)
(* one external call, an effect is committed together with the change of   *)
(* the receipt, a success is final until it expires, and only expired      *)
(* receipts that nobody processes disappear.                               *)
(*                                                                         *)
(* ActionExecution implements this specification; TimerAction builds on it.*)
(***************************************************************************)
EXTENDS Integers

CONSTANT Keys

VARIABLES
  receipt,  \* the status of the receipt of a key, "none" if there is none
  expired,  \* has its replay window passed?
  effects,  \* effects committed under the key in this window
  calls     \* external calls dispatched under the key in this window

receiptVars == <<receipt, expired, effects, calls>>

ReceiptInit ==
  /\ receipt = [k \in Keys |-> "none"]
  /\ expired = [k \in Keys |-> FALSE]
  /\ effects = [k \in Keys |-> 0]
  /\ calls = [k \in Keys |-> 0]

\* The first invocation under a key inserts the receipt.
Insert(k) ==
  /\ receipt[k] = "none"
  /\ receipt' = [receipt EXCEPT ![k] = "processing"]
  /\ expired' = [expired EXCEPT ![k] = FALSE]
  /\ UNCHANGED <<effects, calls>>

\* A later one tries again what failed.
Retry(k) ==
  /\ receipt[k] = "failed_retryable"
  /\ receipt' = [receipt EXCEPT ![k] = "processing"]
  /\ UNCHANGED <<expired, effects, calls>>

Call(k) ==
  /\ calls[k] = 0
  /\ calls' = [calls EXCEPT ![k] = 1]
  /\ UNCHANGED <<receipt, expired, effects>>

\* The effect and the receipt change together.
Commit(k) ==
  /\ receipt[k] = "processing" /\ effects[k] = 0
  /\ receipt' = [receipt EXCEPT ![k] = "succeeded"]
  /\ expired' = [expired EXCEPT ![k] = FALSE]
  /\ effects' = [effects EXCEPT ![k] = 1]
  /\ UNCHANGED calls

Fail(k, s) ==
  /\ receipt[k] = "processing"
  /\ receipt' = [receipt EXCEPT ![k] = s]
  /\ expired' = [expired EXCEPT ![k] = FALSE]
  /\ UNCHANGED <<effects, calls>>

\* An operator allows another try.
Reset(k) ==
  /\ receipt[k] = "failed_terminal"
  /\ receipt' = [receipt EXCEPT ![k] = "failed_retryable"]
  /\ UNCHANGED <<expired, effects, calls>>

Expire(k) ==
  /\ receipt[k] # "none" /\ ~expired[k]
  /\ expired' = [expired EXCEPT ![k] = TRUE]
  /\ effects' = [effects EXCEPT ![k] = 0]
  /\ calls' = [calls EXCEPT ![k] = 0]
  /\ UNCHANGED receipt

Remove(gone) ==
  /\ \A k \in gone : expired[k] /\ receipt[k] \notin {"none", "processing"}
  /\ receipt' = [k \in Keys |-> IF k \in gone THEN "none" ELSE receipt[k]]
  /\ expired' = [k \in Keys |-> IF k \in gone THEN FALSE ELSE expired[k]]
  /\ UNCHANGED <<effects, calls>>

ReceiptNext ==
  \/ \E k \in Keys :
       \/ Insert(k) \/ Retry(k) \/ Call(k) \/ Commit(k) \/ Reset(k) \/ Expire(k)
       \/ \E s \in {"failed_retryable", "failed_terminal"} : Fail(k, s)
  \/ \E gone \in SUBSET Keys : Remove(gone)

ReceiptSpec == ReceiptInit /\ [][ReceiptNext]_receiptVars
=============================================================================
