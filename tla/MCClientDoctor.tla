---------------------------- MODULE MCClientDoctor ----------------------------
(* Small instances of ClientDoctor for TLC.                                *)
EXTENDS ClientDoctor

Good == [key |-> TRUE, alias |-> "claude", fits |-> TRUE, slots |-> TRUE,
         jinja |-> TRUE, model |-> "calls"]

\* A server as it should be, and every one with a single defect
OneDefect ==
    {Good, [Good EXCEPT !.key = FALSE], [Good EXCEPT !.fits = FALSE],
     [Good EXCEPT !.slots = FALSE], [Good EXCEPT !.jinja = FALSE]}
    \union {[Good EXCEPT !.alias = a] : a \in {"none", "other", "same"}}
    \union {[Good EXCEPT !.model = m] : m \in {"prose", "broken"}}

AnyFront == {"none", "holds", "page"}

Ask(api, inference, agent, timeout) ==
    [api |-> api, pinned |-> api = "openai", inference |-> inference, agent |-> agent,
     timeout |-> timeout]

\* A timeout below the limit of time and one above it, and each flag
AnyRequest ==
    {Ask("openai", TRUE, TRUE, 2), Ask("anthropic", TRUE, TRUE, 4),
     Ask("openai", TRUE, FALSE, 2), Ask("openai", FALSE, FALSE, 2)}
=============================================================================
