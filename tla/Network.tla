------------------------------ MODULE Network ------------------------------
(***************************************************************************)
(* A session with the adapter from ezsp.Open to Close: the reset, the      *)
(* version handshake, configuration and endpoints, the saved network, and  *)
(* the operations that change it (internal/ezsp/network.go, policy.go,     *)
(* config.go, endpoint.go; PermitJoin of zigbee/coordinator.go).           *)
(*                                                                         *)
(* One operation runs at a time, and every operation is a row of commands. *)
(* A command is what EzspConn shows it to be: it ends with its own answer  *)
(* or with an error, and after an error the NCP may still carry it out.    *)
(* Stack status callbacks share the line with the answers.                 *)
(*                                                                         *)
(* The n-th call of FormNetwork or JoinNetwork is the number n, and so are *)
(* the network it asks for and the keys it installs.                       *)
(***************************************************************************)
EXTENDS Integers, Sequences, FiniteSets

CONSTANTS
    Versions,        \* the protocol versions an NCP may report
    Legacy,          \* LegacyVersion
    requiredConfig,  \* the configuration values Open insists on, in order
    Preset,          \* the ones the firmware starts with
    StatusCap,       \* capacity of a stack status subscription (4)
    MaxBoots,        \* bound: how often the NCP restarts, on Open or by itself
    MaxCalls         \* bound: calls of FormNetwork, JoinNetwork, LeaveNetwork, PermitJoin

ASSUME NetworkAssumption ==
    /\ Legacy \in Versions /\ Versions \cap {"unset", "error"} = {}
    /\ requiredConfig \in Seq(STRING) /\ requiredConfig # <<>>
    /\ StatusCap \in Nat \ {0}
    /\ {MaxBoots, MaxCalls} \subseteq Nat

Config == {requiredConfig[i] : i \in DOMAIN requiredConfig}

VARIABLES
    \* the host
    pc,        \* the command whose answer the operation waits for, or where else it is
    no,        \* how many commands were issued in this session
    version,   \* c.version
    item,      \* applyConfiguration's place in requiredConfig
    call,      \* the running FormNetwork or JoinNetwork
    seen,      \* what NetworkState answered to it
    opening,   \* PermitJoin's duration is not zero
    sub,       \* a stack status subscription is in the map
    up,        \* its channel
    \* the line
    request,   \* commands on their way to the NCP
    wire,      \* answers and callbacks on their way to the host
    \* the NCP
    ncp,
    \* counters and history
    boots, calls,
    rebooted,  \* the NCP has restarted on its own in this session
    replaced,  \* what calls had seen when the NCP gave up a live network for them
    done       \* calls that returned a result, and what the adapter then held

hostVars == <<version, item, call, seen, opening>>
subVars == <<sub, up>>
countVars == <<boots, calls, rebooted>>
history == <<replaced, done>>
vars == <<pc, no, hostVars, subVars, request, wire, ncp, countVars, history>>

NoCall == [kind |-> "none", n |-> 0]
Calls == [kind: {"form", "join"}, n: 1..MaxCalls] \cup {NoCall}

\* What the adapter stores: the network, and the keys it was set up with.
NoNetwork == [net |-> NoCall, keys |-> NoCall]

Stack == {"none", "joining", "joined", "noParent", "leaving"}

\* NetworkStatus.Joined.
Joined(s) == s \in {"joined", "noParent"}

Reply(n, val) == [kind |-> "reply", no |-> n, val |-> val]
Status(val) == [kind |-> "status", no |-> 0, val |-> val]

\* A restart keeps the tokens and nothing else (the comments on requiredConfig,
\* AddEndpoint and AllowJoins).
Boot(n) ==
    [n EXCEPT !.stack = "none", !.target = NoNetwork, !.agreed = "unset",
              !.config = Preset, !.endpoint = FALSE, !.policy = FALSE,
              !.window = FALSE, !.keys = NoCall]

Init ==
    /\ pc = "closed" /\ no = 0 /\ version = Legacy /\ item = 1
    /\ call = NoCall /\ seen = "none" /\ opening = FALSE
    /\ sub = FALSE /\ up = <<>>
    /\ request = <<>> /\ wire = <<>>
    /\ \E kind \in {"none", "form", "join"} :
          ncp = Boot([tokens |-> [net |-> [kind |-> kind, n |-> 0], keys |-> NoCall],
                      stack |-> "none", target |-> NoNetwork, agreed |-> "unset",
                      config |-> {}, endpoint |-> FALSE, policy |-> FALSE,
                      window |-> FALSE, keys |-> NoCall])
    /\ boots = 0 /\ calls = 0 /\ rebooted = FALSE
    /\ replaced = {} /\ done = {}

-----------------------------------------------------------------------------
(***************************************************************************)
(* command.  Ask sends one and makes step the place where the operation    *)
(* waits; Answer ends the wait with the value the NCP gave or with an      *)
(* error: link.Send failed or CommandTimeout passed.                       *)
(***************************************************************************)
Resting == {"closed", "idle", "restore", "await"}

Ask(step, op, arg) ==
    /\ pc' = step
    /\ no' = no + 1
    /\ request' = Append(request, [op |-> op, no |-> no + 1, arg |-> arg,
                                   layout |-> version'])

Rest(place) == pc' = place /\ UNCHANGED <<no, request>>

Answer(step, vals) ==
    /\ pc = step
    /\ \/ /\ wire # <<>> /\ \E v \in vals : Head(wire) = Reply(no, v)
          /\ wire' = Tail(wire)
       \/ /\ "error" \in vals
          /\ UNCHANGED wire

Subscribe == sub' = TRUE /\ up' = <<>>
Unsubscribe == sub' = FALSE /\ up' = <<>>

StatusRoom == Len(up) < StatusCap

\* The read pump: answers nobody waits for are dropped, callbacks go to the
\* subscription if it has room.
Route ==
    /\ wire # <<>>
    /\ LET m == Head(wire) IN
       /\ ~(m.kind = "reply" /\ m.no = no /\ pc \notin Resting)
       /\ up' = IF m.kind = "status" /\ sub /\ StatusRoom
                THEN Append(up, m.val) ELSE up
    /\ wire' = Tail(wire)
    /\ UNCHANGED <<pc, no, hostVars, sub, request, ncp, countVars, history>>

-----------------------------------------------------------------------------
(***************************************************************************)
(* Open.  Resetting the ASH link restarts the NCP.                         *)
(***************************************************************************)
Open ==
    /\ pc = "closed" /\ boots < MaxBoots
    /\ boots' = boots + 1 /\ rebooted' = FALSE
    /\ ncp' = Boot(ncp)
    /\ wire' = <<>>
    /\ version' = Legacy /\ item' = 1
    /\ \/ /\ pc' = "version" /\ no' = 1
          /\ request' = <<[op |-> "version", no |-> 1, arg |-> Legacy, layout |-> Legacy]>>
       \/ pc' = "closed" /\ no' = 0 /\ request' = <<>>
    /\ UNCHANGED <<call, seen, opening, subVars, calls, history>>

\* c.Close(); return nil, err
OpenFails ==
    /\ Rest("closed") /\ Unsubscribe
    /\ UNCHANGED <<version, item>>

StartConfig == Ask("config", "setConfig", requiredConfig[1])

Negotiate ==
    /\ \/ /\ Answer("version", {Legacy})
          /\ UNCHANGED <<version, item, subVars>> /\ StartConfig
       \/ \E v \in Versions \ {Legacy} :
             /\ Answer("version", {v})
             /\ version' = v /\ Ask("confirm", "version", v)
             /\ UNCHANGED <<item, subVars>>
       \/ Answer("version", {"error"}) /\ OpenFails
    /\ UNCHANGED <<call, seen, opening, ncp, countVars, history>>

Confirm ==
    /\ \/ /\ Answer("confirm", {version})
          /\ UNCHANGED <<version, item, subVars>> /\ StartConfig
       \/ Answer("confirm", (Versions \ {version}) \cup {"error"}) /\ OpenFails
    /\ UNCHANGED <<call, seen, opening, ncp, countVars, history>>

\* applyConfiguration moves on to the next value, registerEndpoints comes after the last.
NextConfig ==
    /\ item' = item + 1
    /\ UNCHANGED <<version, subVars>>
    /\ \/ /\ item < Len(requiredConfig)
          /\ Ask("config", "setConfig", requiredConfig[item + 1])
       \/ /\ item = Len(requiredConfig)
          /\ Ask("endpoint", "addEndpoint", "1")

ConfigSet ==
    /\ \/ Answer("config", {"ok"}) /\ NextConfig
       \/ /\ Answer("config", {"refused", "error"})
          /\ UNCHANGED <<version, item, subVars>>
          /\ Ask("configRead", "getConfig", requiredConfig[item])
    /\ UNCHANGED <<call, seen, opening, ncp, countVars, history>>

\* Mutant: that the value can be read is enough.
ConfigReadAny ==
    /\ \/ Answer("configRead", {"right", "wrong"}) /\ NextConfig
       \/ Answer("configRead", {"error"}) /\ OpenFails
    /\ UNCHANGED <<call, seen, opening, ncp, countVars, history>>

ConfigRead ==
    /\ \/ Answer("configRead", {"right"}) /\ NextConfig
       \/ Answer("configRead", {"wrong", "error"}) /\ OpenFails
    /\ UNCHANGED <<call, seen, opening, ncp, countVars, history>>

\* registerEndpoints, and restoreNetwork up to NetworkInit.  When the endpoint is
\* refused, the state is read for the wording of the error.
EndpointAdded ==
    /\ \/ /\ Answer("endpoint", {"ok"})
          /\ Subscribe
          /\ UNCHANGED <<version, item>> /\ Ask("init", "networkInit", "0")
       \/ /\ Answer("endpoint", {"refused", "error"})
          /\ UNCHANGED <<version, item, subVars>>
          /\ Ask("endpointState", "networkState", "")
    /\ UNCHANGED <<call, seen, opening, ncp, countVars, history>>

EndpointState ==
    /\ Answer("endpointState", Stack \cup {"error"})
    /\ OpenFails
    /\ UNCHANGED <<call, seen, opening, ncp, countVars, history>>

NetworkInit ==
    /\ \/ /\ Answer("init", {"notJoined"})
          /\ Rest("idle") /\ Unsubscribe /\ UNCHANGED <<version, item>>
       \/ /\ Answer("init", {"ok"})
          /\ Rest("restore") /\ UNCHANGED <<version, item, subVars>>
       \/ Answer("init", {"refused", "error"}) /\ OpenFails
    /\ UNCHANGED <<call, seen, opening, ncp, countVars, history>>

RestoreStatus ==
    /\ pc = "restore" /\ up # <<>>
    /\ \/ Head(up) = "up" /\ Rest("idle") /\ Unsubscribe
       \/ Head(up) # "up" /\ Rest("restore") /\ up' = Tail(up) /\ UNCHANGED sub
    /\ UNCHANGED <<hostVars, wire, ncp, countVars, history>>

\* Five seconds: Open succeeds without having heard.
RestoreGivesUp ==
    /\ pc = "restore"
    /\ Rest("idle") /\ Unsubscribe
    /\ UNCHANGED <<hostVars, wire, ncp, countVars, history>>

-----------------------------------------------------------------------------
(***************************************************************************)
(* FormNetwork and JoinNetwork.  They differ in the security state they    *)
(* install (a joiner's is followed by an extended bitmask, best effort).   *)
(* A configuration they refuse before the first command changes nothing.   *)
(***************************************************************************)
Start(kind) ==
    /\ pc = "idle" /\ calls < MaxCalls
    /\ calls' = calls + 1
    /\ call' = [kind |-> kind, n |-> calls + 1]
    /\ UNCHANGED version /\ Ask("check", "networkState", "")
    /\ UNCHANGED <<item, seen, opening, subVars, wire, ncp, boots, rebooted, history>>

Fails == Rest("idle") /\ Unsubscribe

\* Mutant: the network that is already there is not looked for.
NothingLive(s) == s \in Stack

MayReplace(s) == s \in Stack /\ ~Joined(s)

Check ==
    /\ \/ \E s \in Stack :
             /\ MayReplace(s) /\ Answer("check", {s})
             /\ seen' = s
             /\ UNCHANGED <<version, subVars>> /\ Ask("security", "security", call)
       \/ /\ Answer("check", {s \in Stack : ~MayReplace(s)} \cup {"error"})
          /\ Fails /\ UNCHANGED <<version, seen>>
    /\ UNCHANGED <<item, call, opening, ncp, countVars, history>>

\* Subscribed before the command, which the status may overtake.
Command == Subscribe /\ Ask("command", call.kind, call)

\* Mutant: the security state is best effort, as the extended bitmask is.
SecurityAny ==
    /\ Answer("security", {"ok", "refused", "error"})
    /\ UNCHANGED version
    /\ \/ call.kind = "form" /\ Command
       \/ call.kind = "join" /\ Ask("extended", "extended", call) /\ UNCHANGED subVars
    /\ UNCHANGED <<item, call, seen, opening, ncp, countVars, history>>

SetSecurity ==
    /\ UNCHANGED version
    /\ \/ /\ Answer("security", {"ok"})
          /\ \/ call.kind = "form" /\ Command
             \/ call.kind = "join" /\ Ask("extended", "extended", call) /\ UNCHANGED subVars
       \/ Answer("security", {"refused", "error"}) /\ Fails
    /\ UNCHANGED <<item, call, seen, opening, ncp, countVars, history>>

SetExtended ==
    /\ Answer("extended", {"ok", "refused", "error"})
    /\ UNCHANGED version /\ Command
    /\ UNCHANGED <<item, call, seen, opening, ncp, countVars, history>>

Commanded ==
    /\ \/ Answer("command", {"ok"}) /\ Rest("await") /\ UNCHANGED subVars
       \/ Answer("command", {"refused", "error"}) /\ Fails
    /\ UNCHANGED <<hostVars, ncp, countVars, history>>

\* awaitNetworkUp: any status but up (and success) is the end of it.
AwaitStatus ==
    /\ pc = "await" /\ up # <<>>
    /\ \/ /\ Head(up) = "up"
          /\ up' = Tail(up) /\ UNCHANGED <<sub, version>>
          /\ Ask("readBack", "parameters", "")
       \/ Head(up) # "up" /\ Fails /\ UNCHANGED version
    /\ UNCHANGED <<item, call, seen, opening, wire, ncp, countVars, history>>

\* Mutant: nothing limits the wait.
AwaitForever == pc = "await" /\ FALSE /\ UNCHANGED vars

AwaitTimeout ==
    /\ pc = "await"
    /\ Fails
    /\ UNCHANGED <<hostVars, wire, ncp, countVars, history>>

\* The result.  Two more commands read addresses whose errors are ignored.
ReadBack ==
    /\ \/ /\ Answer("readBack", {"ok"})
          /\ done' = done \cup {[call |-> call, seen |-> seen, held |-> ncp.tokens]}
       \/ /\ Answer("readBack", {"refused", "error"})
          /\ UNCHANGED done
    /\ Fails
    /\ UNCHANGED <<hostVars, ncp, countVars, replaced>>

LeaveNetwork ==
    /\ pc = "idle" /\ calls < MaxCalls
    /\ calls' = calls + 1
    /\ UNCHANGED version /\ Ask("leave", "leave", "")
    /\ UNCHANGED <<item, call, seen, opening, subVars, wire, ncp, boots, rebooted, history>>

Left ==
    /\ Answer("leave", {"ok", "refused", "error"})
    /\ Rest("idle")
    /\ UNCHANGED <<hostVars, subVars, ncp, countVars, history>>

-----------------------------------------------------------------------------
(***************************************************************************)
(* PermitJoin with AllowJoins.                                             *)
(***************************************************************************)
PermitJoin ==
    /\ pc = "idle" /\ calls < MaxCalls
    /\ calls' = calls + 1
    /\ opening' \in BOOLEAN
    /\ UNCHANGED version /\ Ask("permitCheck", "networkState", "")
    /\ UNCHANGED <<item, call, seen, subVars, wire, ncp, boots, rebooted, history>>

PermitFails == Rest("idle") /\ UNCHANGED version

PermitJoining(secs) == UNCHANGED version /\ Ask("permit", "permit", secs)

PermitCheck ==
    /\ \/ /\ Answer("permitCheck", {s \in Stack : Joined(s)})
          /\ \/ /\ opening
                /\ UNCHANGED version /\ Ask("trustCenter", "setPolicy", "trustCenter")
             \/ ~opening /\ PermitJoining("0")
       \/ /\ Answer("permitCheck", {s \in Stack : ~Joined(s)} \cup {"error"})
          /\ PermitFails
    /\ UNCHANGED <<item, call, seen, opening, subVars, ncp, countVars, history>>

PolicySet ==
    /\ UNCHANGED version
    /\ \/ Answer("trustCenter", {"ok"}) /\ Ask("keyRequest", "setPolicy", "keyRequest")
       \/ Answer("keyRequest", {"ok"}) /\ Ask("policyRead", "getPolicy", "trustCenter")
       \/ /\ \E step \in {"trustCenter", "keyRequest"} : Answer(step, {"refused", "error"})
          /\ Rest("idle")
    /\ UNCHANGED <<item, call, seen, opening, subVars, ncp, countVars, history>>

PolicyRead ==
    /\ UNCHANGED version
    /\ \/ Answer("policyRead", {"allows"}) /\ Ask("transient", "transient", "")
       \/ Answer("policyRead", {"denies", "error"}) /\ Rest("idle")
    /\ UNCHANGED <<item, call, seen, opening, subVars, ncp, countVars, history>>

TransientKey ==
    /\ Answer("transient", {"ok", "refused", "error"})
    /\ PermitJoining("60")
    /\ UNCHANGED <<item, call, seen, opening, subVars, ncp, countVars, history>>

Permitted ==
    /\ Answer("permit", {"ok", "refused", "error"})
    /\ Rest("idle")
    /\ UNCHANGED <<hostVars, subVars, ncp, countVars, history>>

Close ==
    /\ pc = "idle"
    /\ Rest("closed") /\ Unsubscribe
    /\ UNCHANGED <<hostVars, wire, ncp, countVars, history>>

-----------------------------------------------------------------------------
(***************************************************************************)
(* The NCP (external), as the comments of the code describe it.  Commands  *)
(* reach it in order.  It may refuse what it is allowed to do; where it is *)
(* unclear whether it refuses something, both are possible.                *)
(***************************************************************************)
Serve(op, new, val, statuses) ==
    /\ request # <<>> /\ Head(request).op = op
    /\ op # "version" => ncp.agreed = Head(request).layout
    /\ ncp' = new
    /\ wire' = (wire \o statuses) \o <<Reply(Head(request).no, val)>>
    /\ request' = Tail(request)
    /\ UNCHANGED <<pc, no, hostVars, subVars, countVars, done>>

Arg == Head(request).arg

NcpVersion ==
    /\ \E v \in Versions :
          Serve("version", [ncp EXCEPT !.agreed = IF Arg = v THEN v ELSE "unset"], v, <<>>)
    /\ UNCHANGED replaced

NcpConfig ==
    /\ \/ /\ ncp.stack = "none"
          /\ Serve("setConfig", [ncp EXCEPT !.config = @ \cup {Arg}], "ok", <<>>)
       \/ Serve("setConfig", ncp, "refused", <<>>)
       \/ Serve("getConfig", ncp, IF Arg \in ncp.config THEN "right" ELSE "wrong", <<>>)
       \/ /\ ncp.stack = "none"
          /\ Serve("addEndpoint", [ncp EXCEPT !.endpoint = TRUE], "ok", <<>>)
       \/ Serve("addEndpoint", ncp, "refused", <<>>)
    /\ UNCHANGED replaced

NcpInit ==
    /\ \/ ncp.tokens = NoNetwork /\ Serve("networkInit", ncp, "notJoined", <<>>)
       \/ /\ ncp.tokens # NoNetwork /\ ncp.stack = "none"
          /\ Serve("networkInit", [ncp EXCEPT !.stack = "joining", !.target = ncp.tokens],
                   "ok", <<>>)
       \/ ncp.tokens # NoNetwork /\ Serve("networkInit", ncp, "refused", <<>>)
    /\ UNCHANGED replaced

NcpQuery ==
    /\ \/ Serve("networkState", ncp, ncp.stack, <<>>)
       \/ Serve("parameters", ncp, IF Joined(ncp.stack) THEN "ok" ELSE "refused", <<>>)
    /\ UNCHANGED replaced

\* "takes effect only while the network is down"
NcpSecurity ==
    /\ \/ ncp.stack = "none" /\ Serve("security", [ncp EXCEPT !.keys = Arg], "ok", <<>>)
       \/ ncp.stack # "none" /\ Serve("security", ncp, "ok", <<>>)
       \/ Serve("security", ncp, "refused", <<>>)
       \/ \E v \in {"ok", "refused"} : Serve("extended", ncp, v, <<>>)
    /\ UNCHANGED replaced

\* Formation and joining need keys and a stack that is not busy.  A live network may be
\* given up for the new one: that is why the host looks for it first.
NcpCommand ==
    \E kind \in {"form", "join"} :
       \/ /\ ncp.keys # NoCall /\ (ncp.stack = "none" \/ Joined(ncp.stack))
          /\ Serve(kind, [ncp EXCEPT !.stack = "joining", !.window = FALSE,
                                     !.target = [net |-> Arg, keys |-> ncp.keys]],
                   "ok", <<>>)
          /\ replaced' = IF Joined(ncp.stack) THEN replaced \cup {seen} ELSE replaced
       \/ /\ Serve(kind, ncp, "refused", <<>>)
          /\ UNCHANGED replaced

NcpLeave ==
    /\ \/ /\ Joined(ncp.stack)
          /\ Serve("leave", [ncp EXCEPT !.stack = "leaving", !.window = FALSE,
                                        !.tokens = NoNetwork], "ok", <<>>)
       \/ Serve("leave", ncp, "refused", <<>>)
    /\ UNCHANGED replaced

\* A policy may be acknowledged and yet not take effect.
NcpPolicy ==
    /\ \/ Serve("setPolicy", [ncp EXCEPT !.policy = @ \/ Arg = "trustCenter"], "ok", <<>>)
       \/ \E v \in {"ok", "refused"} : Serve("setPolicy", ncp, v, <<>>)
       \/ Serve("getPolicy", ncp, IF ncp.policy THEN "allows" ELSE "denies", <<>>)
       \/ \E v \in {"ok", "refused"} : Serve("transient", ncp, v, <<>>)
    /\ UNCHANGED replaced

NcpPermit ==
    /\ \/ /\ Joined(ncp.stack)
          /\ Serve("permit", [ncp EXCEPT !.window = (Arg # "0")], "ok",
                   <<Status(IF Arg # "0" THEN "opened" ELSE "closed")>>)
       \/ Serve("permit", ncp, "refused", <<>>)
    /\ UNCHANGED replaced

\* What the stack does by itself.  A node that finds no way back onto its network is
\* still joined, without a parent.
Happens(new, status) ==
    /\ ncp' = new
    /\ wire' = Append(wire, Status(status))
    /\ UNCHANGED <<pc, no, hostVars, subVars, request, countVars, history>>

NcpStack ==
    \/ /\ ncp.stack \in {"joining", "noParent"}
       /\ Happens([ncp EXCEPT !.stack = "joined", !.tokens = ncp.target], "up")
    \/ /\ ncp.stack = "joining" /\ ncp.target.net.kind = "join"
       /\ Happens([ncp EXCEPT !.stack = IF ncp.target = ncp.tokens THEN "noParent"
                                        ELSE "none"], "failed")
    \/ /\ ncp.stack = "leaving"
       /\ Happens([ncp EXCEPT !.stack = "none"], "down")
    \/ /\ ncp.window
       /\ Happens([ncp EXCEPT !.window = FALSE], "closed")

\* A command is lost on the line, or the NCP has restarted and does not know its layout.
NcpMisses ==
    /\ request # <<>>
    /\ request' = Tail(request)
    /\ UNCHANGED <<pc, no, hostVars, subVars, wire, ncp, countVars, history>>

NcpReboot ==
    /\ boots < MaxBoots
    /\ boots' = boots + 1 /\ rebooted' = TRUE
    /\ ncp' = Boot(ncp)
    /\ request' = <<>>
    /\ UNCHANGED <<pc, no, hostVars, subVars, wire, calls, history>>

-----------------------------------------------------------------------------
OpenStep ==
    \/ Negotiate \/ Confirm \/ ConfigSet \/ ConfigRead \/ EndpointAdded \/ EndpointState
    \/ NetworkInit \/ RestoreStatus \/ RestoreGivesUp
CallStep ==
    \/ Check \/ SetSecurity \/ SetExtended \/ Commanded \/ AwaitStatus \/ AwaitTimeout
    \/ ReadBack \/ Left
PermitStep == PermitCheck \/ PolicySet \/ PolicyRead \/ TransientKey \/ Permitted
Begin == Open \/ (\E kind \in {"form", "join"} : Start(kind)) \/ LeaveNetwork \/ PermitJoin
NcpStep ==
    \/ NcpVersion \/ NcpConfig \/ NcpInit \/ NcpQuery \/ NcpSecurity \/ NcpCommand
    \/ NcpLeave \/ NcpPolicy \/ NcpPermit \/ NcpStack \/ NcpMisses \/ NcpReboot

HostStep == OpenStep \/ CallStep \/ PermitStep

Next == Begin \/ Close \/ HostStep \/ Route \/ NcpStep

Spec == Init /\ [][Next]_vars

\* Every wait has a timer, and what can run does.  Nothing is assumed of the NCP.
FairSpec == Spec /\ WF_vars(HostStep)

-----------------------------------------------------------------------------
\* Nothing is used before it has been prepared, whatever was refused, lost or carried out
\* late: the stack does not run without the configuration and the endpoint devices need, for
\* Open asks for the network last; no command but version reaches the NCP in a layout it has
\* not agreed to, unless it has restarted on its own; and the network is never open to devices
\* the trust centre would turn away (Open, negotiate, restoreNetwork, AllowJoins, PermitJoin).
PreparedBeforeUse ==
    /\ ncp.stack # "none" => Config \subseteq ncp.config /\ ncp.endpoint
    /\ request # <<>> /\ Head(request).op # "version" /\ ~rebooted
           => ncp.agreed = Head(request).layout
    /\ ncp.window => ncp.policy

\* The adapter keeps its network and uses it: FormNetwork and JoinNetwork never make it give
\* up a live one, except one that was still coming up when they looked; and an open session
\* has asked for the one it holds, unless the NCP has restarted on its own (restoreNetwork).
HoldsItsNetwork ==
    /\ replaced \subseteq {"joining"}
    /\ pc = "idle" /\ ~rebooted /\ replaced = {} /\ ncp.tokens # NoNetwork
           => ncp.stack # "none"

\* A call that found no network and returned a result names a network the adapter really
\* holds, with the keys of the same call, so the key FormNetwork reports is the network's
\* (FormNetwork, JoinNetwork).
ResultIsHeld ==
    \A d \in done : d.seen = "none" => d.held = [net |-> d.call, keys |-> d.call]

\* Every operation returns, even if the NCP is silent (the timers of command,
\* restoreNetwork and awaitNetworkUp).
OperationReturns == pc \notin {"idle", "closed"} ~> pc \in {"idle", "closed"}
=============================================================================
