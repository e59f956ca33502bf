------------------------------ MODULE KeyStore ------------------------------
(***************************************************************************)
(* What the fallback store of packages/redis promises (the header of       *)
(* sqlite-client.ts: "a Redis-compatible client contract"): a key holds    *)
(* what the commands since its loss have put there, and nothing of what it *)
(* held before.  Keys may be lost at any time, to expiry or for room.      *)
(* When the process dies while a key is lost, what that key holds          *)
(* afterwards is not known until a command makes it known.                 *)
(***************************************************************************)
EXTENDS Naturals

CONSTANTS
    Keys,
    Kind,   \* Kind[k]: "string", "counter", "set", "hash" or "list"
    NoReply

VARIABLES
    content,  \* content[k]: a set, of the one value of a key that is no set
    unknown,  \* the keys whose content is not known
    reply,    \* the last command that was done, with what it told
    kills     \* how often the process died

Init ==
    /\ content = [k \in Keys |-> {}]
    /\ unknown = {}
    /\ reply = NoReply
    /\ kills = 0

(* A command is done on k: if k was unknown, with any outcome for k. *)
Perform(do, k, after, told) ==
    /\ \/ /\ content' = [content EXCEPT ![k] = after]
          /\ reply' = [do |-> do, key |-> k, told |-> told]
       \/ /\ k \in unknown
          /\ \A j \in Keys \ {k} : content'[j] = content[j]
          /\ reply'.do = do /\ reply'.key = k
    /\ unknown' \subseteq unknown
    /\ UNCHANGED kills

Read(k) == Perform("read", k, content[k], content[k])

Overwrite(k) ==
    /\ Kind[k] = "string"
    /\ \E v \in content'[k] : Perform("set", k, {v}, {})

(* One more than before, or the first. *)
OneMore(c) == IF c = {} THEN {1} ELSE {n + 1 : n \in c}

Count(k) ==
    /\ Kind[k] \in {"counter", "hash", "list"}
    /\ Perform("count", k, OneMore(content[k]), OneMore(content[k]))

Include(k) ==
    /\ Kind[k] = "set"
    /\ \E i \in content'[k] : Perform("add", k, content[k] \cup {i}, {i} \ content[k])

Cut(k) ==
    /\ Kind[k] = "list"
    /\ \/ content[k] = {} /\ Perform("trim", k, {}, {})
       \/ \E n \in content'[k] :
             (\A m \in content[k] : n \in 1..m) /\ Perform("trim", k, {n}, {})

Expire(k) == Perform("expire", k, content[k], {})

Delete(k) == Perform("del", k, {}, {})

(* Keys are lost, or become known by losing what they held. *)
Lose ==
    /\ \A k \in Keys : content'[k] \in {content[k], {}}
    /\ unknown' \subseteq unknown
    /\ UNCHANGED <<reply, kills>>

Die ==
    /\ \/ unknown' = unknown
       \/ \E k \in Keys : content[k] = {} /\ unknown' = unknown \cup {k}
    /\ kills' = kills + 1
    /\ UNCHANGED <<content, reply>>

Next ==
    \/ Lose \/ Die
    \/ \E k \in Keys : \/ Read(k) \/ Overwrite(k) \/ Count(k) \/ Include(k)
                       \/ Cut(k) \/ Expire(k) \/ Delete(k)

Spec == Init /\ [][Next]_<<content, unknown, reply, kills>>
=============================================================================
