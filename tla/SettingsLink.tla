------------------------------- MODULE SettingsLink -------------------------------
(* SettingsDeviceClient on the host, SettingsProtocolEndpoint and              *)
(* SettingsProtocolService on the device, over a serial line that loses,       *)
(* garbles and delays frames, in order.  Client and device restart alone.      *)
(* The store is the register that SettingsStore implements.                    *)
(*                                                                             *)
(*   client  what the caller asked for and the exchange it has reached         *)
(*   nextRequestId  nextRequestId_ of the client                               *)
(*   down, up       frames on their way to the device, to the client           *)
(*   stored  what load() returns                                               *)
(*   latent  settings of failed saves that a restart may bring up              *)
(*   result  how the last call of the client ended                             *)
(*   seen    what was stored since the current exchange began (history)        *)
EXTENDS Naturals, Sequences

CONSTANTS LinkSettings,   \* valid user settings
          NothingStored,  \* nothing stored
          MaxRequestId,   \* 65535: request identifiers are 1..MaxRequestId
          LineLength      \* bound: frames on their way in one direction

VARIABLES client, nextRequestId, down, up, stored, latent, result, seen
deviceVars == <<stored, latent>>
linkVars == <<client, nextRequestId, down, up, stored, latent, result, seen>>
-----------------------------------------------------------------------------
Garbled == [type |-> "garbled"]

NoCall == [call |-> "none", step |-> "none", id |-> 0, settings |-> NothingStored]
NoResult == [call |-> "none", ok |-> FALSE, settings |-> NothingStored]

\* allocateRequestId(): zero is never allocated.
NextId(id) == IF id = MaxRequestId THEN 1 ELSE id + 1

\* clearInput() discards what has arrived, which may be less than what was sent.
Clear(line) == {SubSeq(line, n + 1, Len(line)) : n \in 0..Len(line)}

Request(step, id, s) ==
    [type |-> step, id |-> id, settings |-> IF step = "write" THEN s ELSE NothingStored]

\* Bound: no frame stays on its way while the identifiers go all the way round.
IdsOnTheirWay ==
    {down[n].id : n \in DOMAIN down}
        \cup {up[n].id : n \in {k \in DOMAIN up : up[k] # Garbled}}

\* exchange(): a new identifier, the input cleared, the request sent; every
\* exchange of a call begins this way.
BeginExchange(call, step, s) ==
    /\ Len(down) < LineLength
    /\ nextRequestId \notin IdsOnTheirWay
    /\ client' = [call |-> call, step |-> step, id |-> nextRequestId, settings |-> s]
    /\ nextRequestId' = NextId(nextRequestId)
    /\ down' = Append(down, Request(step, nextRequestId, s))
    /\ seen' = {stored}

EndCall(ok, s) ==
    /\ result' = [call |-> client.call, ok |-> ok, settings |-> s]
    /\ client' = NoCall
    /\ seen' = {}
    /\ UNCHANGED <<nextRequestId, down>>

\* read() and writeAndVerify(), called by an idle client.
StartRead ==
    /\ client = NoCall
    /\ up' \in Clear(up)
    /\ BeginExchange("read", "read", NothingStored)
    /\ result' = NoResult
    /\ UNCHANGED deviceVars
StartWriteAndVerify(s) ==
    /\ client = NoCall
    /\ up' \in Clear(up)
    /\ BeginExchange("writeAndVerify", "identify", s)
    /\ result' = NoResult
    /\ UNCHANGED deviceVars

\* exchange(): the answer that ends it well.
\* Mutant: the identifier of the answer is not compared.
AcceptsAnyId(frame) ==
    /\ frame.type = client.step
    /\ frame.status = "ok"
Accepts(frame) ==
    /\ frame # Garbled
    /\ frame.id = client.id
    /\ frame.type = client.step
    /\ frame.status = "ok"

\* The first frame to arrive decides the exchange: an answer that is garbled,
\* late, of another type or a refusal fails the whole call.
Reject ==
    /\ client # NoCall /\ up # <<>>
    /\ ~Accepts(Head(up))
    /\ up' = Tail(up)
    /\ EndCall(FALSE, NothingStored)
    /\ UNCHANGED deviceVars

\* writeAndVerify(): identify, write, read back.
NextStep(step) == IF step = "identify" THEN "write" ELSE "read"
Proceed ==
    /\ client # NoCall /\ up # <<>>
    /\ Accepts(Head(up))
    /\ client.step # "read"
    /\ up' \in Clear(Tail(up))
    /\ BeginExchange(client.call, NextStep(client.step), client.settings)
    /\ UNCHANGED <<result, deviceVars>>

\* read() returns the settings; writeAndVerify() compares them with its own.
Finish ==
    /\ client # NoCall /\ up # <<>>
    /\ Accepts(Head(up))
    /\ client.step = "read"
    /\ up' = Tail(up)
    /\ LET s == Head(up).settings
       IN EndCall(client.call = "read" \/ s = client.settings, s)
    /\ UNCHANGED deviceVars

\* The response timeout, or a failure of the channel.
GiveUp ==
    /\ client # NoCall
    /\ EndCall(FALSE, NothingStored)
    /\ UNCHANGED <<up, deviceVars>>

\* The program that holds the client is started again: its identifiers restart
\* at 1.  Assumed: by the time it opens the port, which purges it, the device has
\* handled what the previous program had sent.
ClientRestarts ==
    /\ down = <<>>
    /\ up' = <<>>
    /\ client' = NoCall
    /\ nextRequestId' = 1
    /\ result' = NoResult
    /\ seen' = {}
    /\ UNCHANGED <<down, deviceVars>>
-----------------------------------------------------------------------------
\* handle(): the checks in their order.  A refusal changes nothing.  The client
\* validates what it sends, so every payload it sends is well formed.
Access == [authorized : BOOLEAN, idle : BOOLEAN]
Refusal(request, access) ==
    IF ~access.authorized THEN "unauthorized"
    ELSE IF request.type = "read" /\ stored = NothingStored THEN "settings_unavailable"
    ELSE IF request.type = "write" /\ ~access.idle THEN "busy"
    ELSE "ok"

Response(request, status) ==
    [type |-> request.type, id |-> request.id, status |-> status,
     settings |-> IF request.type = "read" /\ status = "ok" THEN stored ELSE NothingStored]

\* The response is encoded and sent; a transport that fails loses it.
Respond(response) ==
    \/ Len(up) < LineLength /\ up' = Append(up, response)
    \/ up' = up

\* Records what is stored while an exchange is under way.
Observe == seen' = IF client = NoCall THEN {} ELSE seen \cup {stored'}

HandleWithoutSave(access) ==
    /\ down # <<>>
    /\ LET request == Head(down)
           status == Refusal(request, access)
       IN /\ request.type = "write" => status # "ok"
          /\ Respond(Response(request, status))
    /\ down' = Tail(down)
    /\ UNCHANGED <<client, nextRequestId, deviceVars, result, seen>>

\* A write is saved before it is answered: a response that is lost leaves the
\* device with the new settings.
\* Mutant: a save does not supersede the failed ones before it.
HandleSaveKeepingLatent(access) ==
    /\ down # <<>> /\ Head(down).type = "write"
    /\ Refusal(Head(down), access) = "ok"
    /\ \/ /\ stored' = Head(down).settings
          /\ latent' = latent
          /\ Respond(Response(Head(down), "ok"))
       \/ /\ latent' = latent \cup {Head(down).settings}
          /\ stored' = stored
          /\ Respond(Response(Head(down), "storage_failure"))
    /\ down' = Tail(down)
    /\ Observe
    /\ UNCHANGED <<client, nextRequestId, result>>
HandleSave(access) ==
    /\ down # <<>> /\ Head(down).type = "write"
    /\ Refusal(Head(down), access) = "ok"
    /\ \/ /\ stored' = Head(down).settings
          /\ latent' = {}
          /\ Respond(Response(Head(down), "ok"))
       \/ /\ latent' = latent \cup {Head(down).settings}
          /\ stored' = stored
          /\ Respond(Response(Head(down), "storage_failure"))
    /\ down' = Tail(down)
    /\ Observe
    /\ UNCHANGED <<client, nextRequestId, result>>

\* The device restarts: a save that failed may turn out to have taken place.  The
\* cable that carries the line powers the device, so nothing is left on its way.
DeviceRestarts ==
    /\ stored' \in {stored} \cup latent
    /\ latent' = {}
    /\ down' = <<>> /\ up' = <<>>
    /\ Observe
    /\ UNCHANGED <<client, nextRequestId, result>>
-----------------------------------------------------------------------------
\* The line loses any frame.  A request that is garbled is rejected by the
\* device's receiver without an answer, which is to lose it.
Without(line, n) == SubSeq(line, 1, n - 1) \o SubSeq(line, n + 1, Len(line))
LoseRequest ==
    /\ \E n \in DOMAIN down : down' = Without(down, n)
    /\ UNCHANGED <<client, nextRequestId, up, deviceVars, result, seen>>
LoseResponse ==
    /\ \E n \in DOMAIN up : up' = Without(up, n)
    /\ UNCHANGED <<client, nextRequestId, down, deviceVars, result, seen>>
GarbleResponse ==
    /\ \E n \in DOMAIN up : up' = [up EXCEPT ![n] = Garbled]
    /\ UNCHANGED <<client, nextRequestId, down, deviceVars, result, seen>>
-----------------------------------------------------------------------------
LinkInit ==
    /\ client = NoCall
    /\ nextRequestId = 1
    /\ down = <<>> /\ up = <<>>
    /\ stored = NothingStored
    /\ latent = {}
    /\ result = NoResult
    /\ seen = {}

LinkNext ==
    \/ StartRead \/ Reject \/ Proceed \/ Finish \/ GiveUp \/ ClientRestarts
    \/ \E s \in LinkSettings : StartWriteAndVerify(s)
    \/ \E access \in Access : HandleWithoutSave(access) \/ HandleSave(access)
    \/ DeviceRestarts \/ LoseRequest \/ LoseResponse \/ GarbleResponse

LinkSpec == LinkInit /\ [][LinkNext]_linkVars
-----------------------------------------------------------------------------
\* Once writeAndVerify() has succeeded the device holds these settings for as
\* long as no other write is asked for: no request of an earlier call that was
\* given up, and no restart of the device, replaces them
\* (settings_device_client.cpp, writeAndVerify).
VerifiedWriteStays ==
    result.call = "writeAndVerify" /\ result.ok =>
        /\ stored = result.settings
        /\ latent \subseteq {stored}
        /\ \A n \in DOMAIN down : down[n].type = "write" => down[n].settings = stored

\* A successful read returns what the device held at some moment since the read
\* began, never the late answer to an earlier read
\* (settings_device_client.cpp, exchange).
ReadIsCurrent ==
    [][result'.ok /\ ~result.ok => result'.settings \in seen]_linkVars
=============================================================================
