------------------------------- MODULE Faults -------------------------------
(***************************************************************************)
(* The failures of the outside world.  A call to the database, to the      *)
(* queue, to the mail service or to payOS fails when Fault(kind) is taken; *)
(* FaultKinds says which calls may fail in a run, and MaxFaults bounds how *)
(* many failures a behaviour has, so that the liveness properties speak of *)
(* what happens once they stop.                                            *)
(*                                                                         *)
(*   dbread    a SELECT returns an error                                   *)
(*   dbwrite   an INSERT, UPDATE or DELETE returns an error, whether or    *)
(*             not the statement took effect                               *)
(*   publish   SendMessage returns an error, whether or not it was stored  *)
(*   receive   ReceiveMessage returns an error after hiding messages       *)
(*   delete    DeleteMessage returns an error, whether or not it worked    *)
(*   email     SendEmail returns an error, whether or not it was sent      *)
(*   sms       SendSMS returns an error, whether or not it was sent        *)
(*   payos     the call that creates a payment link returns an error       *)
(*   reply     payOS does not see the answer to its webhook                *)
(*   ping      payOS calls the webhook for an order nobody has             *)
(*   foreign   somebody puts a body the worker has no handler for          *)
(*   crash     a process is killed                                         *)
(*   signal    a process gets SIGINT or SIGTERM                            *)
(*   s3        PutObject returns an error, whether or not it was stored    *)
(*   client    a client of an AWS service cannot be made                   *)
(*   listen    the port is taken, or the socket breaks                     *)
(***************************************************************************)
EXTENDS Integers

CONSTANTS
    FaultKinds,   \* the kinds of failure a run allows
    MaxFaults     \* how many failures a behaviour has at most

ASSUME FaultsAssumption == MaxFaults \in Nat

VARIABLE faults   \* failures so far

FaultsTypeOK == faults \in 0 .. MaxFaults

FaultsInit == faults = 0

(* A failure of kind k happens in this step. *)
Fault(k) ==
    /\ k \in FaultKinds
    /\ faults < MaxFaults
    /\ faults' = faults + 1

(* This step's calls all succeed. *)
NoFault == UNCHANGED faults
=============================================================================
