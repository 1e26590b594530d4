---------------------------- MODULE MCBridgeLink ----------------------------
(***************************************************************************)
(* Two bridges of one configuration, one of which accepts the plugin's     *)
(* nonce, and a plugin that makes two requests.  The bridges meet at the   *)
(* socket path as long as the plugin has done nothing; from then on one    *)
(* follows the other.  The requests are alike, so r1 comes first.  r2 is   *)
(* made while an answer to r1 may still come and b1 is up; from then on    *)
(* no bridge starts and no connection is given up for another.             *)
(***************************************************************************)
EXTENDS BridgeLink

CONSTANTS b1, b2, r1, r2

MCBridges == {b1, b2}
MCOneBridge == {b1}
MCRequests == {r1, r2}
MCOneRequest == {r1}
MCAccepting == {b1}
MCNone == {}

On == {b \in Bridges : bridge[b] # "off"}

Idle ==
    /\ client = Offline
    /\ online = FALSE
    /\ \A n \in LinkIds : links[n] = Unused
    /\ \A r \in Requests : caller[r] = "none"

Both == caller[r2] # "none"

MCNext ==
    /\ Next
    /\ (Idle \/ \A b, c \in On : b = c)'
    /\ Both' => /\ On' \subseteq (On \cap {b1})
                /\ client.link # NoLink => client'.link \in {NoLink, client.link}
    /\ Both' /\ ~Both => caller[r1] \in {"awaiting", "failed"} /\ bridge[b1] = "up"

MCSpec == Init /\ [][MCNext]_vars /\ Fairness
============================================================================
