------------------------------ MODULE Register ------------------------------
(***************************************************************************)
(* What an append-only ledger promises its clients, whatever its requests  *)
(* do: an entry once made never changes or disappears, and whatever was    *)
(* acknowledged is an entry, then and for ever.                            *)
(***************************************************************************)
VARIABLES
    store,      \* key -> entry
    promised    \* acknowledged pairs of a key and its entry

RegisterInit == store = <<>> /\ promised = {}

EntriesStand ==
    \A k \in DOMAIN store : k \in DOMAIN store' /\ store'[k] = store[k]

PromisesKept ==
    /\ promised \subseteq promised'
    /\ \A p \in promised' : p[1] \in DOMAIN store' /\ store'[p[1]] = p[2]

RegisterNext == EntriesStand /\ PromisesKept

RegisterSpec == RegisterInit /\ [][RegisterNext]_<<store, promised>>
=============================================================================
