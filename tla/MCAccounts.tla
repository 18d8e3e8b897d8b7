---------------------------- MODULE MCAccounts ----------------------------
(* Accounts with two administrators and the requests they and a stranger may send. *)
EXTENDS Accounts, TLC

CONSTANTS admin, joe, t1, t2, t3, w1, w2

By(op, t) == [op |-> op, token |-> t]
Named(op, t, u) == [op |-> op, token |-> t, name |-> u]

Update(t, u, c) == [op |-> "update", token |-> t, name |-> u, change |-> c]

AllRequests ==
    {[op |-> "login", name |-> admin, right |-> r] : r \in BOOLEAN}
    \cup {[op |-> "setup", name |-> u] : u \in User}
    \cup {By(op, t1) : op \in {"logout", "list", "action"}}
    \cup {[op |-> "revoke", token |-> t1, other |-> t3]}
    \cup {[op |-> "password", token |-> t1, right |-> TRUE, name |-> Operator]}
    \cup {Named(op, t1, joe) : op \in {"create", "profile", "delete"}}
    \cup {Named(op, t2, admin) : op \in {"profile", "delete"}}
    \cup {Update(t1, joe, c) : c \in {{"disable", "demote"}, {"enable", "promote", "reset"}}}
    \cup {Update(t2, admin, c) : c \in {{"disable"}, {"demote"}}}
    \cup {[op |-> "policy", token |-> t1, ttl |-> n] : n \in TTL}
    \cup {[op |-> "flag", token |-> t1, done |-> TRUE]}

Permute == Permutations(Worker)
=============================================================================
