------------------------------- MODULE KeyLedger -------------------------------
(***************************************************************************)
(* What the key broker promises, without its files, processes and KeyStore *)
(* objects: one ledger of the keys that were issued, each change of which  *)
(* is one step; a list of keys that is published from it; and the keys     *)
(* the server accepts.  A key is recorded once and revoked once.  The list *)
(* is that of the ledger as it is, or empty while it is rewritten.  The    *)
(* ledger may be lost as a whole (keys.json is rewritten in place), and    *)
(* then nothing is issued, revoked or published any more.                  *)
(*                                                                         *)
(* KeyBroker implements this if commands run one at a time: see Ledger     *)
(* there.                                                                  *)
(***************************************************************************)
EXTENDS KeyStore

CONSTANT Keys       \* the keys that may be generated

VARIABLES
    ledger,     \* the entries of the keys that were issued
    lost,
    published,  \* the keys in the allow-list
    accepted    \* those the running server has read

vars == <<ledger, lost, published, accepted>>

Init ==
    /\ ledger = {} /\ lost = FALSE
    /\ published = {} /\ accepted = {}

\* A device without an active key gets one that no entry has
Record(d, k) ==
    /\ ~lost /\ ~HasActive(ledger, d)
    /\ \A e \in ledger : e.key # k
    /\ ledger' = WithAdded(ledger, d, k)
    /\ UNCHANGED <<lost, published, accepted>>

Revoke(d) ==
    /\ ~lost /\ HasActive(ledger, d)
    /\ ledger' = WithRevoked(ledger, d)
    /\ UNCHANGED <<lost, published, accepted>>

Lose ==
    /\ ledger' = {} /\ lost' = TRUE
    /\ UNCHANGED <<published, accepted>>

Publish ==
    /\ ~lost
    /\ published' \in {{}, AllowList(ledger)}
    /\ UNCHANGED <<ledger, lost, accepted>>

\* The server reads the list when it starts
Serve ==
    /\ accepted' \in {{}, published}
    /\ UNCHANGED <<ledger, lost, published>>

Next ==
    \/ \E d \in Devices : Revoke(d) \/ \E k \in Keys : Record(d, k)
    \/ Lose \/ Publish \/ Serve

Spec == Init /\ [][Next]_vars

-----------------------------------------------------------------------------
(* What follows from this.                                                 *)

\* No step gives a key to another device, forgets it or makes a revoked one
\* active again; the keys on the list, and those the server accepts, have been
\* issued.
Issued == {e.key : e \in ledger}
OnlyIssued == lost \/ (published \subseteq Issued /\ accepted \subseteq Issued)
KeptOrLost ==
    lost' \/ \A e \in ledger : \E f \in ledger' :
        f.key = e.key /\ f.device = e.device /\ (f.active => e.active)
NeverTakenBack == [][KeptOrLost]_vars
=============================================================================
