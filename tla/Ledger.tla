------------------------------- MODULE Ledger -------------------------------
(* What the service promises of the balances it records: every Transfer      *)
(* event of the token contract is posted at most once, in one atomic step.   *)
(* Delta(e, u) is what posting e adds to the balance of u.  The event        *)
(* pipeline implements this module (EventPipeline!LedgerSpec).               *)
EXTENDS Integers

CONSTANTS Transfers,      \* the Transfer events of the chain
          Users,          \* the addresses that own a balance
          Delta(_, _)     \* Delta(e, u): the effect of e on the balance of u

VARIABLES applied,        \* the events whose effect has been posted
          balance         \* user_balances: the balance of every user

Init ==
    /\ applied = {}
    /\ balance = [u \in Users |-> 0]

Apply(e) ==
    /\ e \notin applied
    /\ applied' = applied \union {e}
    /\ balance' = [u \in Users |-> balance[u] + Delta(e, u)]

Next == \E e \in Transfers : Apply(e)

Spec == Init /\ [][Next]_<<applied, balance>>
=============================================================================
