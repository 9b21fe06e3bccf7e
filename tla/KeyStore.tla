------------------------------- MODULE KeyStore -------------------------------
(***************************************************************************)
(* The pure operations of class KeyStore (src/localllm/keys.py) on the     *)
(* list of issued keys.                                                    *)
(*                                                                         *)
(* The list is modelled as a set of entries.  Its order is issue order,    *)
(* and keys are numbered in the order they are generated, so "the first    *)
(* matching entry" is the matching entry with the smallest key.  A key is  *)
(* a number because generate_key draws 24 random bytes: all that matters   *)
(* is that it is new.  created_at is dropped, and revoked_at is kept only  *)
(* as the question the code asks of it (is_active).                        *)
(***************************************************************************)
EXTENDS Naturals, FiniteSets

CONSTANT Devices    \* the names laptops may be given

DeviceKey == [device : Devices, key : Nat, active : BOOLEAN]

\* KeyStore.active()
ActiveEntries(entries) == {e \in entries : e.active}

\* The keys render_api_key_file writes and keys_in_file reads back: comment
\* lines are skipped, and no generated key starts with '#'.
AllowList(entries) == {e.key : e \in ActiveEntries(entries)}

ActiveFor(entries, d) == {e \in ActiveEntries(entries) : e.device = d}

HasActive(entries, d) == ActiveFor(entries, d) # {}

Oldest(entries) == CHOOSE e \in entries : \A f \in entries : e.key <= f.key

\* KeyStore.for_device, when the device has an active key
ForDevice(entries, d) == Oldest(ActiveFor(entries, d))

\* Mutant of WithAdded: the device's revoked entries are dropped on re-issue.
WithAddedForgets(entries, d, k) ==
    {e \in entries : e.device # d} \cup {[device |-> d, key |-> k, active |-> TRUE]}

\* KeyStore.add appends an active entry with the new key k
WithAdded(entries, d, k) ==
    entries \cup {[device |-> d, key |-> k, active |-> TRUE]}

\* KeyStore.revoke marks the first active entry of the device, and keeps it
WithRevoked(entries, d) ==
    LET e == ForDevice(entries, d)
    IN  (entries \ {e}) \cup {[e EXCEPT !.active = FALSE]}

\* active()[:n]: the n active entries issued first
FirstActive(entries, n) ==
    {e \in ActiveEntries(entries) :
        Cardinality({f \in ActiveEntries(entries) : f.key < e.key}) < n}

-----------------------------------------------------------------------------
(* What a well-formed list satisfies.                                      *)

OneActivePerDevice(entries) ==
    \A e, f \in ActiveEntries(entries) : e.device = f.device => e = f

\* A key belongs to one device, and is either active or revoked, not both:
\* this is what lets a log line be attributed to a laptop by its key.
KeyIdentifiesEntry(entries) ==
    \A e, f \in entries : e.key = f.key => e = f

WellFormed(entries) == OneActivePerDevice(entries) /\ KeyIdentifiesEntry(entries)
=============================================================================
