---------------------------- MODULE MessageCache ----------------------------
(***************************************************************************)
(* What the broker expects of its payload cache (broker/src/broker.c,       *)
(* store_message and the look-up of send_all_messages), whichever of the    *)
(* two memory algorithms runs: the messages whose payload can be read back, *)
(* and the messages that are on a queue.                                    *)
(*                                                                          *)
(* BuddyMemory (ALGORITMO_MEMORIA=BS) implements it with nothing padded,    *)
(* PartitionMemory (PARTICIONES) with the payloads under                    *)
(* TAMANO_MINIMO_PARTICION padded: what is sent of such a message goes on   *)
(* behind its payload, up to the minimum, with whatever the memory holds.   *)
(***************************************************************************)
CONSTANT Messages

VARIABLES
    storing,  \* the message whose payload is being stored: a set of at most one
    stored,   \* messages whose payload was ever stored
    short,    \* messages whose payload gets padded
    exact,    \* messages of which a look-up returns the payload, byte for byte
    padded,   \* messages of which it returns the payload and more behind it
    queued    \* messages on a queue

vars == <<storing, stored, short, exact, padded, queued>>

Init == storing = {} /\ stored = {} /\ short = {} /\ exact = {} /\ padded = {} /\ queued = {}

\* A message with a payload that will be padded arrives.
Arrive(m) ==
    /\ m \notin storing \cup stored
    /\ short' = short \cup {m}
    /\ UNCHANGED <<storing, stored, exact, padded, queued>>

\* One thread at a time stores, each message once.
BeginStore(m) ==
    /\ storing = {}
    /\ m \notin stored
    /\ storing' = {m}
    /\ UNCHANGED <<stored, short, exact, padded, queued>>

\* A store may give up one payload m at a time, and with it take one message x
\* off its queue: never one whose payload is still there.
Evict(m, x) ==
    /\ storing # {}
    /\ exact' = exact \ {m}
    /\ padded' = padded \ {m}
    /\ x \notin exact' \cup padded'
    /\ queued' = queued \ {x}
    /\ UNCHANGED <<storing, stored, short>>

FinishStore ==
    /\ storing # {}
    /\ storing' = {}
    /\ stored' = stored \cup storing
    /\ exact' = exact \cup (storing \ short)
    /\ padded' = padded \cup (storing \cap short)
    /\ UNCHANGED <<short, queued>>

Enqueue(m) ==
    /\ m \in stored \ queued
    /\ queued' = queued \cup {m}
    /\ UNCHANGED <<storing, stored, short, exact, padded>>

Next ==
    \/ \E m \in Messages : Arrive(m) \/ BeginStore(m) \/ Enqueue(m)
    \/ \E m, x \in Messages : Evict(m, x)
    \/ FinishStore

Spec == Init /\ [][Next]_vars
=============================================================================
