------------------------------ MODULE MCEdges ------------------------------
(***************************************************************************)
(* The code at the edges of the system, side by side: the files that       *)
(* requests change, the functions on messages and rows, and the way of a   *)
(* request through zaman-web and the limiter of zaman-core.  They share no *)
(* state, so a behaviour is about one part only; that of the gateway is    *)
(* either about requests, which use three addresses, or about who is an    *)
(* admin.  The clock of the logins moves only where no user is changed.    *)
(***************************************************************************)
EXTENDS MCAccounts, MCPure, Gateway

VARIABLE part

inputVars == <<kind, input>>

\* One of the users, any, is the admin that the first start creates.
FirstAdmin == CHOOSE u \in Users : TRUE

EdgesInit == /\ part \in {"files", "inputs", "requests", "rights"}
             /\ MCInit /\ PureInit /\ GatewayInit
             /\ role[FirstAdmin] = "admin"
             /\ part # "files" => which = "users"
             /\ part # "inputs" => kind = "sip"
             /\ part # "requests" => trusted

EdgesNext ==
    \/ /\ part = "files" /\ MCNext /\ (changes' > 0 => now' = 0)
       /\ UNCHANGED <<part, inputVars, gateVars>>
    \/ part = "inputs" /\ PureNext /\ UNCHANGED <<part, vars, wvars, gateVars>>
    \/ /\ part = "requests" /\ GatewayNext /\ role' = role
       /\ \A u \in Users \ {FirstAdmin} : asked'[u] = 0
       /\ UNCHANGED <<part, vars, wvars, inputVars>>
    \/ /\ part = "rights" /\ GatewayNext /\ asked' = asked
       /\ UNCHANGED <<part, vars, wvars, inputVars>>

EdgesSpec == EdgesInit /\ [][EdgesNext]_<<part, vars, wvars, inputVars, gateVars>>
=============================================================================
