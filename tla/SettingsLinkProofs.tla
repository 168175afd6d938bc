----------------------------- MODULE SettingsLinkProofs -----------------------------
(* VerifiedWriteStays and ReadIsCurrent for any settings, any number of        *)
(* identifiers and a line of any length; the frames cut out of the stream, for *)
(* any timeout and any noise.                                                  *)
EXTENDS SettingsLink, SettingsStream, SequenceTheorems, TLAPS

Contents == LinkSettings \cup {NothingStored}
Steps == {"identify", "write", "read"}
Statuses == {"unauthorized", "settings_unavailable", "busy", "ok", "storage_failure"}
Calls == [call : {"none", "read", "writeAndVerify"}, step : Steps \cup {"none"},
          id : Nat, settings : Contents]
Requests == [type : Steps, id : Nat, settings : Contents]
Responses == [type : Steps, id : Nat, status : Statuses, settings : Contents]
Arrivals == Responses \cup {Garbled}

LinkTypeOK ==
    /\ client \in Calls /\ (client # NoCall => client.call # "none")
    /\ nextRequestId \in Nat
    /\ down \in Seq(Requests)
    /\ up \in Seq(Arrivals)
    /\ stored \in Contents /\ latent \in SUBSET Contents
    /\ result \in [call : {"none", "read", "writeAndVerify"}, ok : BOOLEAN,
                   settings : Contents]

\* A request that carries the identifier of the exchange is the exchange's own,
\* and the last one that was sent.
RequestIsLast ==
    client # NoCall =>
        \A n \in 1..Len(down) : down[n].id = client.id =>
            /\ n = Len(down)
            /\ down[n].type = client.step
            /\ client.step = "write" => down[n].settings = client.settings

\* A response that carries the identifier of the exchange answers its request,
\* which was the last one on its way, and says what became of it.
ResponseIsOwn ==
    client # NoCall =>
        \A n \in 1..Len(up) : up[n] # Garbled /\ up[n].id = client.id =>
            /\ down = <<>>
            /\ client.step = "write" /\ up[n].status = "ok" =>
                  stored = client.settings /\ latent = {}
            /\ client.step = "read" /\ up[n].status = "ok" => up[n].settings \in seen

\* What is stored is recorded while an exchange is under way.
StoredIsSeen == client # NoCall => stored \in seen

\* The settings that were acknowledged are the only ones that the device can hold
\* and no write is on its way.
Settled(s) ==
    /\ stored = s
    /\ latent \subseteq {s}
    /\ \A n \in 1..Len(down) : down[n].type # "write"

\* They are settled while writeAndVerify() reads them back ...
VerificationIsSettled ==
    client.call = "writeAndVerify" /\ client.step = "read" => Settled(client.settings)

\* ... and after it, until the next call.
ResultIsSettled ==
    /\ client # NoCall => result = NoResult
    /\ result.call = "writeAndVerify" /\ result.ok => Settled(result.settings)

LinkInv ==
    /\ LinkTypeOK
    /\ RequestIsLast /\ ResponseIsOwn /\ StoredIsSeen
    /\ VerificationIsSettled /\ ResultIsSettled
-----------------------------------------------------------------------------
(* The line.                                                                  *)

\* Every frame of one line is a frame of another.
Among(rest, line) == \A n \in 1..Len(rest) : \E k \in 1..Len(line) : rest[n] = line[k]

\* What clearInput() leaves was there.
LEMMA ClearLeavesFrames ==
    ASSUME NEW S, NEW line \in Seq(S), NEW rest \in Clear(line)
    PROVE  rest \in Seq(S) /\ Among(rest, line)
  <1>1. PICK n \in 0..Len(line) : rest = SubSeq(line, n + 1, Len(line))
    BY DEF Clear
  <1>2. rest \in Seq(S) /\ Len(rest) = Len(line) - n
    BY <1>1
  <1>3. \A k \in 1..Len(rest) : n + k \in 1..Len(line) /\ rest[k] = line[n + k]
    BY <1>1, <1>2
  <1> QED
    BY <1>2, <1>3 DEF Among

\* So was what is behind the first frame.
LEMMA TailLeavesFrames ==
    ASSUME NEW S, NEW line \in Seq(S), line # <<>>
    PROVE  /\ Head(line) \in S /\ Head(line) = line[1] /\ 1 \in 1..Len(line)
           /\ Tail(line) \in Seq(S) /\ Len(Tail(line)) = Len(line) - 1
           /\ \A n \in 1..Len(Tail(line)) :
                 n + 1 \in 1..Len(line) /\ Tail(line)[n] = line[n + 1]
           /\ Among(Tail(line), line)
  <1>1. /\ Head(line) \in S /\ Head(line) = line[1] /\ 1 \in 1..Len(line)
        /\ Tail(line) \in Seq(S) /\ Len(Tail(line)) = Len(line) - 1
    OBVIOUS
  <1>2. \A n \in 1..Len(Tail(line)) :
           n + 1 \in 1..Len(line) /\ Tail(line)[n] = line[n + 1]
    OBVIOUS
  <1> QED
    BY <1>1, <1>2 DEF Among

\* A line that loses a frame keeps the others, in their order.
LEMMA WithoutLeavesFrames ==
    ASSUME NEW S, NEW line \in Seq(S), NEW n \in 1..Len(line)
    PROVE  /\ Without(line, n) \in Seq(S)
           /\ Len(Without(line, n)) = Len(line) - 1
           /\ \A k \in 1..Len(Without(line, n)) :
                 Without(line, n)[k] = IF k < n THEN line[k] ELSE line[k + 1]
  <1> DEFINE before == SubSeq(line, 1, n - 1)
             behind == SubSeq(line, n + 1, Len(line))
  <1>1. /\ before \in Seq(S) /\ Len(before) = n - 1
        /\ \A k \in 1..(n - 1) : before[k] = line[k]
    OBVIOUS
  <1>2. /\ behind \in Seq(S) /\ Len(behind) = Len(line) - n
        /\ \A k \in 1..(Len(line) - n) : behind[k] = line[n + k]
    OBVIOUS
  <1>3. Without(line, n) = before \o behind
    BY DEF Without
  <1> HIDE DEF before, behind
  <1>4. /\ before \o behind \in Seq(S) /\ Len(before \o behind) = Len(line) - 1
        /\ \A k \in 1..(Len(line) - 1) :
              (before \o behind)[k] = IF k < n THEN before[k] ELSE behind[k - (n - 1)]
    <2>1. /\ before \o behind \in Seq(S)
          /\ Len(before \o behind) = Len(before) + Len(behind)
      BY <1>1, <1>2, ConcatProperties
    <2>2. \A k \in 1..(Len(before) + Len(behind)) :
             (before \o behind)[k] =
                IF k <= Len(before) THEN before[k] ELSE behind[k - Len(before)]
      BY <1>1, <1>2
    <2>3. \A k \in 1..(Len(line) - 1) : k < n <=> k <= n - 1
      OBVIOUS
    <2> QED
      BY <1>1, <1>2, <2>1, <2>2, <2>3
  <1> QED
    BY <1>1, <1>2, <1>3, <1>4

\* A frame that is sent comes last.
LEMMA AppendAddsLast ==
    ASSUME NEW S, NEW line \in Seq(S), NEW frame \in S
    PROVE  /\ Append(line, frame) \in Seq(S)
           /\ Len(Append(line, frame)) = Len(line) + 1
           /\ Append(line, frame)[Len(line) + 1] = frame
           /\ \A n \in 1..(Len(line) + 1) :
                 n = Len(line) + 1 \/ (n \in 1..Len(line) /\ Append(line, frame)[n] = line[n])
  OBVIOUS
-----------------------------------------------------------------------------
(* The client.                                                                *)

\* An exchange that begins has its request last, and neither an older request nor
\* an older response carries its identifier.
LEMMA ExchangeBegins ==
    ASSUME LinkTypeOK, NEW call \in {"read", "writeAndVerify"}, NEW step \in Steps,
           NEW s \in Contents, BeginExchange(call, step, s),
           up' \in Seq(Arrivals), Among(up', up), UNCHANGED deviceVars
    PROVE  /\ client' \in Calls /\ nextRequestId' \in Nat /\ down' \in Seq(Requests)
           /\ client' = [call |-> call, step |-> step, id |-> nextRequestId, settings |-> s]
           /\ RequestIsLast' /\ ResponseIsOwn' /\ StoredIsSeen'
           /\ down = <<>> => \A n \in 1..Len(down') : down'[n].type = step
  <1> DEFINE request == Request(step, nextRequestId, s)
  <1>1. /\ request \in Requests /\ request.type = step /\ request.id = nextRequestId
        /\ step = "write" => request.settings = s
    BY DEF Request, Requests, Contents, LinkTypeOK
  <1>2. /\ client' = [call |-> call, step |-> step, id |-> nextRequestId, settings |-> s]
        /\ nextRequestId' = NextId(nextRequestId)
        /\ down' = Append(down, request)
        /\ seen' = {stored} /\ stored' = stored
    BY DEF BeginExchange, deviceVars
  <1>3. client' \in Calls /\ nextRequestId' \in Nat
    BY <1>2 DEF Calls, NextId, LinkTypeOK
  <1> HIDE DEF request
  <1>4. /\ down' \in Seq(Requests) /\ Len(down') = Len(down) + 1
        /\ down'[Len(down) + 1] = request
        /\ \A n \in 1..Len(down') :
              n = Len(down) + 1 \/ (n \in 1..Len(down) /\ down'[n] = down[n])
    BY <1>1, <1>2, AppendAddsLast DEF LinkTypeOK
  <1>5. \A n \in 1..Len(down) : down[n].id # nextRequestId
    BY DEF BeginExchange, IdsOnTheirWay, LinkTypeOK
  <1>6. \A n \in 1..Len(up') : up'[n] # Garbled => up'[n].id # nextRequestId
    <2>1. \A n \in 1..Len(up) : up[n] # Garbled => up[n].id # nextRequestId
      BY DEF BeginExchange, IdsOnTheirWay, LinkTypeOK
    <2> QED
      BY <2>1 DEF Among
  <1>7. RequestIsLast'
    BY <1>1, <1>2, <1>4, <1>5 DEF RequestIsLast
  <1>8. ResponseIsOwn'
    BY <1>2, <1>6 DEF ResponseIsOwn
  <1>9. StoredIsSeen'
    BY <1>2 DEF StoredIsSeen
  <1>10. down = <<>> => \A n \in 1..Len(down') : down'[n].type = step
    BY <1>1, <1>4
  <1> QED
    BY <1>2, <1>3, <1>4, <1>7, <1>8, <1>9, <1>10

\* The answer that is accepted is the exchange's own.
LEMMA AcceptedIsOwn ==
    ASSUME LinkInv, client # NoCall, up # <<>>, Accepts(Head(up))
    PROVE  /\ down = <<>> /\ client.step \in Steps /\ Head(up).settings \in Contents
           /\ client.step = "write" => stored = client.settings /\ latent = {}
           /\ client.step = "read" => Head(up).settings \in seen
  <1>1. /\ Head(up) = up[1] /\ 1 \in 1..Len(up) /\ up[1] \in Arrivals
    BY TailLeavesFrames DEF LinkInv, LinkTypeOK
  <1>2. /\ up[1] # Garbled /\ up[1].id = client.id /\ up[1].type = client.step
        /\ up[1].status = "ok"
    BY <1>1 DEF Accepts
  <1>3. up[1] \in Responses
    BY <1>1, <1>2 DEF Arrivals
  <1>4. client.step \in Steps /\ up[1].settings \in Contents
    BY <1>2, <1>3 DEF Responses
  <1> QED
    BY <1>1, <1>2, <1>4 DEF LinkInv, ResponseIsOwn

\* A call that ends leaves an idle client, and settles what it has verified.
LEMMA CallEnds ==
    ASSUME LinkInv, client # NoCall, NEW ok \in BOOLEAN, NEW s \in Contents,
           EndCall(ok, s), up' \in Seq(Arrivals), UNCHANGED deviceVars,
           client.call = "writeAndVerify" /\ ok => Settled(s)
    PROVE  LinkInv'
  <1>1. /\ result' = [call |-> client.call, ok |-> ok, settings |-> s]
        /\ client' = NoCall
        /\ UNCHANGED <<nextRequestId, down, stored, latent>>
    BY DEF EndCall, deviceVars
  <1>2. NoCall \in Calls
    BY DEF NoCall, Calls, Contents
  <1>3. LinkTypeOK'
    BY <1>1, <1>2 DEF LinkInv, LinkTypeOK, Calls
  <1>4. RequestIsLast' /\ ResponseIsOwn' /\ StoredIsSeen'
    BY <1>1 DEF RequestIsLast, ResponseIsOwn, StoredIsSeen
  <1>5. VerificationIsSettled'
    BY <1>1 DEF VerificationIsSettled, NoCall
  <1>6. ResultIsSettled'
    BY <1>1 DEF ResultIsSettled, Settled
  <1> QED
    BY <1>3, <1>4, <1>5, <1>6 DEF LinkInv

\* The steps of the client keep the invariant.
LEMMA ClientStep ==
    ASSUME LinkInv,
           \/ StartRead \/ Reject \/ Proceed \/ Finish \/ GiveUp \/ ClientRestarts
           \/ \E s \in LinkSettings : StartWriteAndVerify(s)
    PROVE  LinkInv'
  <1>1. NoResult.call = "none" /\ NoResult \in [call : {"none", "read", "writeAndVerify"},
                                            ok : BOOLEAN, settings : Contents]
    BY DEF NoResult, Contents
  <1>2. CASE StartRead
    <2>1. up' \in Seq(Arrivals) /\ Among(up', up)
      BY <1>2, ClearLeavesFrames DEF StartRead, LinkInv, LinkTypeOK
    <2>2. /\ BeginExchange("read", "read", NothingStored) /\ NothingStored \in Contents
          /\ UNCHANGED deviceVars /\ result' = NoResult
      BY <1>2 DEF StartRead, Contents
    <2>3. /\ client' \in Calls /\ nextRequestId' \in Nat /\ down' \in Seq(Requests)
          /\ client'.call = "read"
          /\ RequestIsLast' /\ ResponseIsOwn' /\ StoredIsSeen'
      BY <2>1, <2>2, ExchangeBegins DEF LinkInv, Steps
    <2>4. LinkTypeOK'
      BY <1>1, <2>1, <2>2, <2>3 DEF LinkInv, LinkTypeOK, deviceVars
    <2> QED
      BY <1>1, <2>2, <2>3, <2>4 DEF LinkInv, VerificationIsSettled, ResultIsSettled
  <1>3. ASSUME NEW s \in LinkSettings, StartWriteAndVerify(s)
        PROVE  LinkInv'
    <2>1. up' \in Seq(Arrivals) /\ Among(up', up)
      BY <1>3, ClearLeavesFrames DEF StartWriteAndVerify, LinkInv, LinkTypeOK
    <2>2. /\ BeginExchange("writeAndVerify", "identify", s) /\ s \in Contents
          /\ UNCHANGED deviceVars /\ result' = NoResult
      BY <1>3 DEF StartWriteAndVerify, Contents
    <2>3. /\ client' \in Calls /\ nextRequestId' \in Nat /\ down' \in Seq(Requests)
          /\ client'.step = "identify" /\ client'.call = "writeAndVerify"
          /\ RequestIsLast' /\ ResponseIsOwn' /\ StoredIsSeen'
      BY <2>1, <2>2, ExchangeBegins DEF LinkInv, Steps
    <2>4. LinkTypeOK'
      BY <1>1, <2>1, <2>2, <2>3 DEF LinkInv, LinkTypeOK, deviceVars
    <2> QED
      BY <1>1, <2>2, <2>3, <2>4 DEF LinkInv, VerificationIsSettled, ResultIsSettled
  <1>4. CASE Reject
    <2>1. Tail(up) \in Seq(Arrivals)
      BY <1>4, TailLeavesFrames DEF Reject, LinkInv, LinkTypeOK
    <2> QED
      BY <1>4, <2>1, CallEnds DEF Reject, Contents
  <1>5. CASE GiveUp
    BY <1>5, CallEnds DEF GiveUp, Contents, LinkInv, LinkTypeOK
  <1>6. CASE Proceed
    <2>1. /\ client # NoCall /\ up # <<>> /\ Accepts(Head(up)) /\ client.step # "read"
          /\ up' \in Clear(Tail(up)) /\ UNCHANGED deviceVars /\ result' = result
          /\ BeginExchange(client.call, NextStep(client.step), client.settings)
      BY <1>6 DEF Proceed
    <2>2. up' \in Seq(Arrivals) /\ Among(up', up)
      <3>1. Tail(up) \in Seq(Arrivals) /\ Among(Tail(up), up)
        BY <2>1, TailLeavesFrames DEF LinkInv, LinkTypeOK
      <3>2. up' \in Seq(Arrivals) /\ Among(up', Tail(up))
        BY <2>1, <3>1, ClearLeavesFrames
      <3> QED
        BY <3>1, <3>2 DEF Among
    <2>3. /\ down = <<>> /\ client.step \in Steps
          /\ client.step = "write" => stored = client.settings /\ latent = {}
      BY <2>1, AcceptedIsOwn
    <2>4. /\ client.call \in {"read", "writeAndVerify"} /\ client.settings \in Contents
          /\ NextStep(client.step) \in Steps
      BY <2>1, <2>3 DEF LinkInv, LinkTypeOK, Calls, NextStep, Steps
    <2>5. /\ client' \in Calls /\ nextRequestId' \in Nat /\ down' \in Seq(Requests)
          /\ client'.call = client.call /\ client'.settings = client.settings
          /\ client'.step = NextStep(client.step)
          /\ RequestIsLast' /\ ResponseIsOwn' /\ StoredIsSeen'
          /\ \A n \in 1..Len(down') : down'[n].type = NextStep(client.step)
      BY <2>1, <2>2, <2>3, <2>4, ExchangeBegins DEF LinkInv
    <2>6. LinkTypeOK'
      BY <2>1, <2>2, <2>5 DEF LinkInv, LinkTypeOK, deviceVars
    <2>7. VerificationIsSettled'
      <3> SUFFICES ASSUME client'.step = "read" PROVE Settled(client.settings)'
        BY <2>5 DEF VerificationIsSettled, Settled
      <3>1. client.step = "write"
        BY <2>1, <2>3, <2>5 DEF NextStep, Steps
      <3> QED
        BY <2>1, <2>3, <2>5, <3>1 DEF Settled, deviceVars, NextStep
    <2>8. ResultIsSettled'
      BY <1>1, <2>1 DEF LinkInv, ResultIsSettled
    <2> QED
      BY <2>5, <2>6, <2>7, <2>8 DEF LinkInv
  <1>7. CASE Finish
    <2> DEFINE s == Head(up).settings
               ok == client.call = "read" \/ s = client.settings
    <2>1. /\ client # NoCall /\ up # <<>> /\ Accepts(Head(up)) /\ client.step = "read"
          /\ up' = Tail(up) /\ UNCHANGED deviceVars /\ EndCall(ok, s)
      BY <1>7 DEF Finish
    <2>2. Tail(up) \in Seq(Arrivals)
      BY <2>1, TailLeavesFrames DEF LinkInv, LinkTypeOK
    <2>3. s \in Contents
      BY <2>1, AcceptedIsOwn
    <2>4. client.call = "writeAndVerify" /\ ok => Settled(s)
      BY <2>1 DEF LinkInv, VerificationIsSettled
    <2>5. ok \in BOOLEAN
      OBVIOUS
    <2> HIDE DEF s, ok
    <2> QED
      BY <2>1, <2>2, <2>3, <2>4, <2>5, CallEnds
  <1>8. CASE ClientRestarts
    <2>1. /\ client' = NoCall /\ result' = NoResult /\ nextRequestId' = 1
          /\ down' = <<>> /\ up' = <<>> /\ stored' = stored /\ latent' = latent
      BY <1>8 DEF ClientRestarts, deviceVars
    <2>2. NoCall \in Calls
      BY DEF NoCall, Calls, Contents
    <2>3. LinkTypeOK'
      BY <1>1, <2>1, <2>2 DEF LinkInv, LinkTypeOK
    <2>4. VerificationIsSettled'
      BY <2>1 DEF VerificationIsSettled, NoCall
    <2> QED
      BY <1>1, <2>1, <2>3, <2>4 DEF LinkInv, RequestIsLast, ResponseIsOwn, StoredIsSeen,
         ResultIsSettled
  <1> QED
    BY <1>2, <1>3, <1>4, <1>5, <1>6, <1>7, <1>8
-----------------------------------------------------------------------------
(* The device.                                                                *)

\* The request that is handled: the exchange's own is the only one on its way.
LEMMA RequestHandled ==
    ASSUME LinkInv, down # <<>>, down' = Tail(down), client' = client
    PROVE  /\ Head(down) \in Requests /\ down' \in Seq(Requests) /\ Among(down', down)
           /\ 1 \in 1..Len(down) /\ Head(down) = down[1]
           /\ RequestIsLast'
           /\ client # NoCall /\ Head(down).id = client.id =>
                 /\ down' = <<>> /\ Head(down).type = client.step
                 /\ client.step = "write" => Head(down).settings = client.settings
           /\ client # NoCall =>
                 \A n \in 1..Len(up) : up[n] # Garbled => up[n].id # client.id
  <1>1. /\ Head(down) \in Requests /\ Head(down) = down[1] /\ 1 \in 1..Len(down)
        /\ down' \in Seq(Requests) /\ Len(down') = Len(down) - 1
        /\ \A n \in 1..Len(down') : n + 1 \in 1..Len(down) /\ down'[n] = down[n + 1]
        /\ Among(down', down)
    BY TailLeavesFrames DEF LinkInv, LinkTypeOK
  <1>2. RequestIsLast'
    <2> SUFFICES ASSUME client # NoCall, NEW n \in 1..Len(down'), down'[n].id = client.id
                 PROVE  /\ n = Len(down') /\ down'[n].type = client.step
                        /\ client.step = "write" => down'[n].settings = client.settings
      BY DEF RequestIsLast
    <2>1. n + 1 \in 1..Len(down) /\ down[n + 1].id = client.id /\ down'[n] = down[n + 1]
      BY <1>1
    <2>2. /\ n + 1 = Len(down) /\ down[n + 1].type = client.step
          /\ client.step = "write" => down[n + 1].settings = client.settings
      BY <2>1 DEF LinkInv, RequestIsLast
    <2>3. n = Len(down')
      <3>1. n \in Int /\ Len(down) \in Int /\ Len(down') = Len(down) - 1
        BY <1>1 DEF LinkInv, LinkTypeOK
      <3> QED
        BY <2>2, <3>1
    <2> QED
      BY <2>1, <2>2, <2>3
  <1>3. ASSUME client # NoCall, Head(down).id = client.id
        PROVE  /\ down' = <<>> /\ Head(down).type = client.step
               /\ client.step = "write" => Head(down).settings = client.settings
    <2>1. /\ 1 = Len(down) /\ down[1].type = client.step
          /\ client.step = "write" => down[1].settings = client.settings
      BY <1>1, <1>3 DEF LinkInv, RequestIsLast
    <2> QED
      BY <1>1, <2>1
  <1>4. client # NoCall => \A n \in 1..Len(up) : up[n] # Garbled => up[n].id # client.id
    BY DEF LinkInv, ResponseIsOwn
  <1> QED
    BY <1>1, <1>2, <1>3, <1>4

\* Its response is the only one of the exchange.
LEMMA ResponseSent ==
    ASSUME LinkInv, NEW response \in Responses, Respond(response),
           client # NoCall =>
               \A n \in 1..Len(up) : up[n] # Garbled => up[n].id # client.id
    PROVE  /\ up' \in Seq(Arrivals)
           /\ client # NoCall =>
                 \A n \in 1..Len(up') :
                     up'[n] # Garbled /\ up'[n].id = client.id => up'[n] = response
  <1>1. response \in Arrivals
    BY DEF Arrivals
  <1>2. CASE up' = up
    BY <1>2 DEF LinkInv, LinkTypeOK
  <1>3. CASE up' = Append(up, response)
    BY <1>1, <1>3, AppendAddsLast DEF LinkInv, LinkTypeOK
  <1> QED
    BY <1>2, <1>3 DEF Respond

\* A response says what the request and its refusal say.
LEMMA ResponseSays ==
    ASSUME NEW request \in Requests, NEW status \in Statuses, stored \in Contents
    PROVE  LET r == Response(request, status)
           IN /\ r \in Responses /\ r.id = request.id /\ r.status = status
              /\ request.type = "read" /\ status = "ok" => r.settings = stored
  BY DEF Response, Requests, Responses, Contents

\* A request that saves nothing leaves what is stored.
LEMMA HandleWithoutSaveStep ==
    ASSUME LinkInv, NEW access, HandleWithoutSave(access)
    PROVE  LinkInv'
  <1> DEFINE request == Head(down)
             status == Refusal(request, access)
             response == Response(request, status)
  <1>1. /\ down # <<>> /\ down' = Tail(down)
        /\ request.type = "write" => status # "ok"
        /\ Respond(response)
        /\ UNCHANGED <<client, nextRequestId, stored, latent, result, seen>>
    BY DEF HandleWithoutSave, deviceVars
  <1>2. status \in Statuses
    BY DEF Refusal, Statuses
  <1>3. /\ request \in Requests /\ down' \in Seq(Requests) /\ Among(down', down)
        /\ RequestIsLast'
        /\ client # NoCall /\ request.id = client.id =>
              down' = <<>> /\ request.type = client.step
        /\ client # NoCall =>
              \A n \in 1..Len(up) : up[n] # Garbled => up[n].id # client.id
    BY <1>1, RequestHandled
  <1> HIDE DEF request, status
  <1>4. /\ response \in Responses /\ response.id = request.id /\ response.status = status
        /\ request.type = "read" /\ status = "ok" => response.settings = stored
    BY <1>2, <1>3, ResponseSays DEF LinkInv, LinkTypeOK
  <1> HIDE DEF response
  <1>5. /\ up' \in Seq(Arrivals)
        /\ client # NoCall =>
              \A n \in 1..Len(up') :
                  up'[n] # Garbled /\ up'[n].id = client.id => up'[n] = response
    BY <1>1, <1>3, <1>4, ResponseSent
  <1>6. LinkTypeOK'
    BY <1>1, <1>3, <1>5 DEF LinkInv, LinkTypeOK
  <1>7. StoredIsSeen'
    BY <1>1 DEF LinkInv, StoredIsSeen
  <1>8. ResponseIsOwn'
    <2> SUFFICES ASSUME client # NoCall, NEW n \in 1..Len(up'),
                        up'[n] # Garbled, up'[n].id = client.id
                 PROVE  /\ down' = <<>>
                        /\ client.step = "write" /\ up'[n].status = "ok" =>
                              stored = client.settings /\ latent = {}
                        /\ client.step = "read" /\ up'[n].status = "ok" =>
                              up'[n].settings \in seen
      BY <1>1 DEF ResponseIsOwn
    <2>1. up'[n] = response /\ request.id = client.id
      BY <1>4, <1>5
    <2> QED
      BY <1>1, <1>3, <1>4, <2>1 DEF LinkInv, StoredIsSeen
  <1>9. \A s : Settled(s) => Settled(s)'
    BY <1>1, <1>3 DEF Settled, Among
  <1> QED
    BY <1>1, <1>3, <1>6, <1>7, <1>8, <1>9
       DEF LinkInv, VerificationIsSettled, ResultIsSettled

\* While something is settled, no write is handled; a save that takes effect is
\* the only one that the device holds.
LEMMA HandleSaveStep ==
    ASSUME LinkInv, NEW access, HandleSave(access)
    PROVE  LinkInv'
  <1> DEFINE request == Head(down)
  <1>1. PICK status \in {"ok", "storage_failure"} :
           /\ Respond(Response(request, status))
           /\ status = "ok" => stored' = request.settings /\ latent' = {}
           /\ status = "storage_failure" =>
                 stored' = stored /\ latent' = latent \cup {request.settings}
    BY DEF HandleSave
  <1>2. /\ down # <<>> /\ down' = Tail(down) /\ request.type = "write"
        /\ UNCHANGED <<client, nextRequestId, result>>
        /\ client # NoCall => seen' = seen \cup {stored'}
    BY DEF HandleSave, Observe
  <1> DEFINE response == Response(request, status)
  <1>3. /\ request \in Requests /\ down' \in Seq(Requests)
        /\ 1 \in 1..Len(down) /\ request = down[1]
        /\ RequestIsLast'
        /\ client # NoCall /\ request.id = client.id =>
              /\ down' = <<>> /\ request.type = client.step
              /\ client.step = "write" => request.settings = client.settings
        /\ client # NoCall =>
              \A n \in 1..Len(up) : up[n] # Garbled => up[n].id # client.id
    BY <1>2, RequestHandled
  <1> HIDE DEF request
  <1>4. response \in Responses /\ response.id = request.id /\ response.status = status
    BY <1>3, ResponseSays DEF LinkInv, LinkTypeOK, Statuses
  <1> HIDE DEF response
  <1>5. /\ up' \in Seq(Arrivals)
        /\ client # NoCall =>
              \A n \in 1..Len(up') :
                  up'[n] # Garbled /\ up'[n].id = client.id => up'[n] = response
    BY <1>1, <1>3, <1>4, ResponseSent DEF response
  <1>6. LinkTypeOK'
    <2>1. request.settings \in Contents
      BY <1>3 DEF Requests
    <2>2. stored' \in Contents /\ latent' \in SUBSET Contents
      BY <1>1, <2>1 DEF LinkInv, LinkTypeOK
    <2> QED
      BY <1>2, <1>3, <1>5, <2>2 DEF LinkInv, LinkTypeOK
  <1>7. StoredIsSeen'
    BY <1>2 DEF StoredIsSeen
  <1>8. ResponseIsOwn'
    <2> SUFFICES ASSUME client # NoCall, NEW n \in 1..Len(up'),
                        up'[n] # Garbled, up'[n].id = client.id
                 PROVE  /\ down' = <<>>
                        /\ client.step = "write"
                        /\ up'[n].status = "ok" =>
                              stored' = client.settings /\ latent' = {}
      BY <1>2 DEF ResponseIsOwn
    <2>1. up'[n] = response /\ request.id = client.id
      BY <1>4, <1>5
    <2> QED
      BY <1>1, <1>2, <1>3, <1>4, <2>1
  <1>9. \A s : ~Settled(s)
    BY <1>2, <1>3 DEF Settled
  <1> QED
    BY <1>2, <1>3, <1>6, <1>7, <1>8, <1>9
       DEF LinkInv, VerificationIsSettled, ResultIsSettled

\* A restart settles what is stored among what it may be.
LEMMA DeviceRestartsStep ==
    ASSUME LinkInv, DeviceRestarts
    PROVE  LinkInv'
  <1>1. /\ stored' \in {stored} \cup latent /\ latent' = {}
        /\ down' = <<>> /\ up' = <<>>
        /\ UNCHANGED <<client, nextRequestId, result>>
        /\ client # NoCall => stored' \in seen'
    BY DEF DeviceRestarts, Observe
  <1>2. LinkTypeOK'
    BY <1>1 DEF LinkInv, LinkTypeOK
  <1>3. RequestIsLast' /\ ResponseIsOwn' /\ StoredIsSeen'
    BY <1>1 DEF RequestIsLast, ResponseIsOwn, StoredIsSeen
  <1>4. \A s : Settled(s) => Settled(s)'
    BY <1>1 DEF Settled
  <1> QED
    BY <1>1, <1>2, <1>3, <1>4 DEF LinkInv, VerificationIsSettled, ResultIsSettled
-----------------------------------------------------------------------------
(* The losses.                                                                *)

\* A request that is lost leaves the last one last.
LEMMA LoseRequestStep ==
    ASSUME LinkInv, LoseRequest
    PROVE  LinkInv'
  <1>1. /\ UNCHANGED <<client, nextRequestId, up, stored, latent, result, seen>>
        /\ \E n \in 1..Len(down) : down' = Without(down, n)
    BY DEF LoseRequest, deviceVars, LinkInv, LinkTypeOK
  <1>2. PICK n \in 1..Len(down) : down' = Without(down, n)
    BY <1>1
  <1>3. /\ down' \in Seq(Requests) /\ Len(down') = Len(down) - 1
        /\ \A k \in 1..Len(down') : down'[k] = IF k < n THEN down[k] ELSE down[k + 1]
    BY <1>2, WithoutLeavesFrames DEF LinkInv, LinkTypeOK
  <1>4. LinkTypeOK'
    BY <1>1, <1>3 DEF LinkInv, LinkTypeOK
  <1>5. RequestIsLast'
    <2> SUFFICES ASSUME client # NoCall, NEW k \in 1..Len(down'), down'[k].id = client.id
                 PROVE  /\ k = Len(down') /\ down'[k].type = client.step
                        /\ client.step = "write" => down'[k].settings = client.settings
      BY <1>1 DEF RequestIsLast
    <2>1. CASE k < n
      <3>1. k \in 1..Len(down) /\ k # Len(down) /\ down[k].id = client.id
        BY <1>3, <2>1
      <3> QED
        BY <3>1 DEF LinkInv, RequestIsLast
    <2>2. CASE ~(k < n)
      <3>1. /\ k + 1 \in 1..Len(down) /\ down[k + 1].id = client.id
            /\ down'[k] = down[k + 1]
        BY <1>3, <2>2
      <3>2. /\ k + 1 = Len(down) /\ down[k + 1].type = client.step
            /\ client.step = "write" => down[k + 1].settings = client.settings
        BY <3>1 DEF LinkInv, RequestIsLast
      <3> QED
        BY <1>3, <3>1, <3>2
    <2> QED
      BY <2>1, <2>2
  <1>6. ResponseIsOwn' /\ StoredIsSeen'
    <2>1. down # <<>>
      BY <1>2
    <2> QED
      BY <1>1, <2>1 DEF LinkInv, ResponseIsOwn, StoredIsSeen
  <1>7. \A s : Settled(s) => Settled(s)'
    BY <1>1, <1>3 DEF Settled
  <1> QED
    BY <1>1, <1>4, <1>5, <1>6, <1>7 DEF LinkInv, VerificationIsSettled, ResultIsSettled

\* Nor does the loss or the damage of a response make another one.
LEMMA LoseResponseStep ==
    ASSUME LinkInv, LoseResponse \/ GarbleResponse
    PROVE  LinkInv'
  <1>1. UNCHANGED <<client, nextRequestId, down, stored, latent, result, seen>>
    BY DEF LoseResponse, GarbleResponse, deviceVars
  <1>2. /\ up' \in Seq(Arrivals)
        /\ \A n \in 1..Len(up') :
              up'[n] = Garbled \/ \E k \in 1..Len(up) : up'[n] = up[k]
    <2>1. CASE LoseResponse
      <3>1. PICK n \in 1..Len(up) : up' = Without(up, n)
        BY <2>1 DEF LoseResponse, LinkInv, LinkTypeOK
      <3>2. /\ up' \in Seq(Arrivals) /\ Len(up') = Len(up) - 1
            /\ \A k \in 1..Len(up') : up'[k] = IF k < n THEN up[k] ELSE up[k + 1]
        BY <3>1, WithoutLeavesFrames DEF LinkInv, LinkTypeOK
      <3>3. \A k \in 1..Len(up') : k \in 1..Len(up) /\ k + 1 \in 1..Len(up)
        BY <3>2
      <3> QED
        BY <3>2, <3>3
    <2>2. CASE GarbleResponse
      <3>1. PICK n \in 1..Len(up) : up' = [up EXCEPT ![n] = Garbled]
        <4>1. DOMAIN up = 1..Len(up)
          BY DEF LinkInv, LinkTypeOK
        <4> QED
          BY <2>2, <4>1 DEF GarbleResponse
      <3>2. Garbled \in Arrivals
        BY DEF Arrivals
      <3>3. up' \in Seq(Arrivals) /\ Len(up') = Len(up)
        BY <3>1, <3>2 DEF LinkInv, LinkTypeOK
      <3> QED
        BY <3>1, <3>3 DEF LinkInv, LinkTypeOK
    <2> QED
      BY <2>1, <2>2
  <1>3. LinkTypeOK'
    BY <1>1, <1>2 DEF LinkInv, LinkTypeOK
  <1>4. RequestIsLast' /\ StoredIsSeen'
    BY <1>1 DEF LinkInv, RequestIsLast, StoredIsSeen
  <1>5. ResponseIsOwn'
    BY <1>1, <1>2 DEF LinkInv, ResponseIsOwn
  <1> QED
    BY <1>1, <1>3, <1>4, <1>5 DEF LinkInv, VerificationIsSettled, ResultIsSettled, Settled
-----------------------------------------------------------------------------
(* Theorems.                                                                  *)

\* Every step of the client, of the device and of the line keeps the invariant.
LEMMA LinkStep ==
    ASSUME LinkInv, [LinkNext]_linkVars
    PROVE  LinkInv'
  <1>1. CASE UNCHANGED linkVars
    BY <1>1 DEF linkVars, LinkInv, LinkTypeOK, RequestIsLast, ResponseIsOwn, StoredIsSeen,
       VerificationIsSettled, ResultIsSettled, Settled
  <1>2. CASE LinkNext
    BY <1>2, ClientStep, HandleWithoutSaveStep, HandleSaveStep, DeviceRestartsStep,
       LoseRequestStep, LoseResponseStep DEF LinkNext
  <1> QED
    BY <1>1, <1>2

\* The inductive invariant: what carries the identifier of the exchange is its own,
\* and what it says of the device still holds.
THEOREM LinkInvariant == LinkSpec => []LinkInv
  <1>1. LinkInit => LinkInv
    BY DEF LinkInit, LinkInv, LinkTypeOK, RequestIsLast, ResponseIsOwn, StoredIsSeen,
       VerificationIsSettled, ResultIsSettled, NoCall, NoResult, Calls, Contents
  <1> QED
    BY <1>1, LinkStep, PTL DEF LinkSpec

\* Once writeAndVerify() has succeeded, no late request and no restart replaces the
\* settings: the write that was acknowledged was the last on its way.
THEOREM VerifiedWriteRemains == LinkSpec => []VerifiedWriteStays
  <1>1. LinkInv => VerifiedWriteStays
    <2> SUFFICES ASSUME LinkInv, result.call = "writeAndVerify", result.ok
                 PROVE  /\ stored = result.settings /\ latent \subseteq {stored}
                        /\ \A n \in DOMAIN down :
                              down[n].type = "write" => down[n].settings = stored
      BY DEF VerifiedWriteStays
    <2>1. DOMAIN down = 1..Len(down)
      BY DEF LinkInv, LinkTypeOK
    <2> QED
      BY <2>1 DEF LinkInv, ResultIsSettled, Settled
  <1> QED
    BY <1>1, LinkInvariant, PTL

\* A read that succeeds returns what the device held while it was under way.
THEOREM ReadStaysCurrent == LinkSpec => ReadIsCurrent
  <1>1. LinkInv /\ [LinkNext]_linkVars =>
           [result'.ok /\ ~result.ok => result'.settings \in seen]_linkVars
    <2> SUFFICES ASSUME LinkInv, [LinkNext]_linkVars, result'.ok, ~result.ok
                 PROVE  result'.settings \in seen
      OBVIOUS
    <2>1. ~NoResult.ok
      BY DEF NoResult
    <2>2. result' # result /\ result' # NoResult
      BY <2>1
    <2>3. CASE Finish
      BY <2>3, AcceptedIsOwn DEF Finish, EndCall
    <2>4. CASE Reject \/ GiveUp
      BY <2>4 DEF Reject, GiveUp, EndCall
    <2>5. CASE StartRead \/ Proceed \/ ClientRestarts
               \/ \E s \in LinkSettings : StartWriteAndVerify(s)
      BY <2>2, <2>5 DEF StartRead, Proceed, ClientRestarts, StartWriteAndVerify
    <2>6. CASE \E access \in Access : HandleWithoutSave(access) \/ HandleSave(access)
      BY <2>2, <2>6 DEF HandleWithoutSave, HandleSave
    <2>7. CASE DeviceRestarts \/ LoseRequest \/ LoseResponse \/ GarbleResponse
      BY <2>2, <2>7 DEF DeviceRestarts, LoseRequest, LoseResponse, GarbleResponse
    <2>8. CASE UNCHANGED linkVars
      BY <2>2, <2>8 DEF linkVars
    <2> QED
      BY <2>3, <2>4, <2>5, <2>6, <2>7, <2>8 DEF LinkNext
  <1> QED
    BY <1>1, LinkInvariant, PTL DEF LinkSpec, ReadIsCurrent
-----------------------------------------------------------------------------
(* The stream of bytes.                                                       *)

\* The beginning of a frame, with the size it says as soon as it says it.
Partial(held, size) ==
    /\ held \in Seq(AllBytes)
    /\ Len(held) >= 1 => held[1] = "B"
    /\ Len(held) >= 2 => held[2] = "M"
    /\ Len(held) < HeaderSize => size = 0
    /\ Len(held) >= HeaderSize =>
          /\ size = HeaderSize + PayloadSize(held[HeaderSize]) + 1
          /\ Len(held) < size /\ size <= MaximumFrameSize

\* IsSuffix, one byte at a time.
EndsWith(s, t) ==
    /\ Len(s) <= Len(t)
    /\ \A i \in 1..Len(s) : s[i] = t[Len(t) - Len(s) + i]

\* Where the frame that is being heard may begin: TailAfter keeps the bytes from the
\* first one of these on.
Starts(heard) ==
    {n \in DOMAIN heard : heard[n] = Magic[1] /\ Len(heard) - n < MaximumFrameSize}

\* The sizes of the protocol, with its magic of two letters.
LEMMA FrameSizes ==
    /\ Len(Magic) = 2 /\ Magic[1] = "B" /\ Magic[2] = "M"
    /\ HeaderSize = 4 /\ MaximumFrameSize = 6
  BY DEF Magic, HeaderSize, MaximumFrameSize, MaximumPayload

\* While the magic is searched.
LEMMA BeforeMagic == \A n \in Nat : n < 2 => n = 0 \/ n = 1
  OBVIOUS

\* Once it was found.
LEMMA AtLeastMagic == \A n \in Nat : ~(n < 2) => n = 2 \/ n = 3 \/ n > 3
  OBVIOUS

\* Once the header is complete.
LEMMA InPayload ==
    \A n : (n = 4 \/ n = 5) => ~(n < 2) /\ ~(n >= 6) /\ n >= 4 /\ n + 1 # 4
  OBVIOUS

\* The beginnings of a frame, by their length.
LEMMA FrameOffsets ==
    \A m \in {5, 6} : \A n \in 1..(m - 1) :
        n = 1 \/ n = 2 \/ n = 3 \/ n = 4 \/ n = 5
  OBVIOUS

\* The bytes that the line carries.
LEMMA Letters ==
    /\ {"B", "M", "empty", "full", "version", "checksum"} = AllBytes
  BY DEF AllBytes, Range, Magic, Sizes, Version, Checksum

\* A size is that of no payload, of the only one, or too large.
LEMMA PayloadSizes == \A byte : PayloadSize(byte) \in {0, 1, 2}
  BY DEF PayloadSize

\* A byte more in the buffer.
LEMMA GrownBuffer ==
    ASSUME NEW held \in Seq(AllBytes), NEW byte \in AllBytes
    PROVE  /\ Append(held, byte) \in Seq(AllBytes)
           /\ Len(Append(held, byte)) = Len(held) + 1
           /\ \A i \in 1..Len(held) : Append(held, byte)[i] = held[i]
           /\ Append(held, byte)[Len(held) + 1] = byte
  OBVIOUS

\* Six numbers in a row hold the least of any of them.
LEMMA ShortestExists ==
    ASSUME NEW n \in Int, NEW S, S \subseteq n..(n + 5), S # {}
    PROVE  Min(S) \in S /\ \A k \in S : Min(S) <= k
<1>1. \E m \in S : \A k \in S : m <= k
  <2>1. CASE n \in S
    BY <2>1
  <2>2. CASE n \notin S /\ n + 1 \in S
    BY <2>2
  <2>3. CASE n \notin S /\ n + 1 \notin S /\ n + 2 \in S
    BY <2>3
  <2>4. CASE n \notin S /\ n + 1 \notin S /\ n + 2 \notin S /\ n + 3 \in S
    BY <2>4
  <2>5. CASE n \notin S /\ n + 1 \notin S /\ n + 2 \notin S /\ n + 3 \notin S /\ n + 4 \in S
    BY <2>5
  <2>6. CASE n \notin S /\ n + 1 \notin S /\ n + 2 \notin S /\ n + 3 \notin S /\ n + 4 \notin S
    <3>1. S \subseteq {n + 5}
      BY <2>6
    <3>2. n + 5 \in S
      BY <3>1
    <3> QED  BY <3>1, <3>2
  <2> QED  BY <2>1, <2>2, <2>3, <2>4, <2>5, <2>6
<1> QED  BY <1>1 DEF Min

\* A suffix, one byte at a time.
LEMMA EndsIsSuffix ==
    ASSUME NEW s \in Seq(AllBytes), NEW t \in Seq(AllBytes), EndsWith(s, t)
    PROVE  IsSuffix(s, t)
<1> DEFINE a == Reverse(s)
           b == Reverse(t)
<1>1. a \in Seq(AllBytes) /\ Len(a) = Len(s) /\ \A i \in 1..Len(s) : a[i] = s[Len(s) - i + 1]
  <2>1. \A i \in 1..Len(s) : s[(Len(s) - i) + 1] \in AllBytes
    OBVIOUS
  <2> QED BY <2>1 DEF Reverse
<1>2. b \in Seq(AllBytes) /\ Len(b) = Len(t) /\ \A i \in 1..Len(t) : b[i] = t[Len(t) - i + 1]
  <2>1. \A i \in 1..Len(t) : t[(Len(t) - i) + 1] \in AllBytes
    OBVIOUS
  <2> QED BY <2>1 DEF Reverse
<1>3. \A i \in 1..Len(s) : a[i] = b[i]
  <2> TAKE i \in 1..Len(s)
  <2>1. Len(s) - i + 1 \in 1..Len(s) /\ i \in 1..Len(t)
    BY DEF EndsWith
  <2>2. s[Len(s) - i + 1] = t[Len(t) - Len(s) + (Len(s) - i + 1)]
    BY <2>1 DEF EndsWith
  <2>3. Len(t) - Len(s) + (Len(s) - i + 1) = Len(t) - i + 1
    OBVIOUS
  <2> QED  BY <1>1, <1>2, <2>1, <2>2, <2>3
<1>4. Len(a) <= Len(b)
  BY <1>1, <1>2 DEF EndsWith
<1> HIDE DEF a, b
<1>5. SubSeq(a, 1, Len(a)) = SubSeq(b, 1, Len(a))
  BY <1>1, <1>2, <1>3, <1>4
<1> QED  BY <1>4, <1>5 DEF IsSuffix, IsPrefix, a, b

\* What the history keeps of the bytes heard still ends with the beginning of a frame
\* that they end with.
LEMMA TailKeeps ==
    ASSUME NEW heard \in Seq(AllBytes), NEW s \in Seq(AllBytes), s # <<>>, s[1] = "B",
           Len(s) <= MaximumFrameSize, EndsWith(s, heard)
    PROVE  /\ Starts(heard) # {}
           /\ EndsWith(s, SubSeq(heard, Min(Starts(heard)), Len(heard)))
<1> DEFINE k == Len(heard) - Len(s) + 1
           m == Min(Starts(heard))
<1>1. k \in 1..Len(heard) /\ Len(heard) - k < MaximumFrameSize /\ heard[k] = "B"
  BY FrameSizes DEF EndsWith
<1>2. k \in Starts(heard)
  BY <1>1, FrameSizes DEF Starts
<1>3. Starts(heard) \subseteq (Len(heard) - 5)..(Len(heard) - 5 + 5)
  BY FrameSizes DEF Starts
<1>4. m \in 1..Len(heard) /\ m <= k
  <2>1. m \in Starts(heard) /\ \A n \in Starts(heard) : m <= n
    <3>1. Len(heard) - 5 \in Int
      OBVIOUS
    <3> HIDE DEF k
    <3> QED  BY <1>2, <1>3, <3>1, ShortestExists
  <2> HIDE DEF m
  <2> QED  BY <1>2, <2>1 DEF Starts
<1> HIDE DEF m
<1>5. /\ Len(SubSeq(heard, m, Len(heard))) = Len(heard) - m + 1
      /\ \A i \in 1..(Len(heard) - m + 1) :
            SubSeq(heard, m, Len(heard))[i] = heard[m + i - 1]
  BY <1>4
<1>6. EndsWith(s, SubSeq(heard, m, Len(heard)))
  <2> DEFINE rest == SubSeq(heard, m, Len(heard))
  <2>1. Len(s) <= Len(rest)
    BY <1>4, <1>5
  <2>2. ASSUME NEW i \in 1..Len(s)
        PROVE  s[i] = rest[Len(rest) - Len(s) + i]
    <3>1. Len(rest) - Len(s) + i \in 1..(Len(heard) - m + 1)
      BY <1>4, <1>5
    <3>2. m + (Len(rest) - Len(s) + i) - 1 = Len(heard) - Len(s) + i
      BY <1>4, <1>5
    <3>3. rest[Len(rest) - Len(s) + i] = heard[Len(heard) - Len(s) + i]
      BY <1>5, <3>1, <3>2
    <3> QED  BY <3>3 DEF EndsWith
  <2> QED  BY <2>1, <2>2 DEF EndsWith
<1> QED  BY <1>2, <1>6 DEF m


\* What a byte makes of a frame that is begun.
Follows(held, byte, r) ==
    /\ Partial(r.buffer, r.expected)
    /\ r.event.type \in {"none", "rejected", "ready"}
    /\ r.event.type = "none" <=> r.event = None
    /\ r.buffer # <<>> => \/ r.buffer = Append(held, byte)
                          \/ r.buffer = <<byte>> /\ byte = "B"
    /\ r.event.type = "ready" => /\ r.event.frame = Append(held, byte)
                                 /\ WellFormed(r.event.frame)
                                 /\ r.event.frame[1] = "B"

\* consumeSynchronized() keeps the beginning of a frame, grown by the byte or begun
\* again with it, or delivers a well-formed frame that ends with the byte.
LEMMA ConsumeStep ==
    ASSUME NEW held, NEW size, Partial(held, size), NEW byte \in AllBytes
    PROVE  Follows(held, byte, ConsumeSynchronized(held, size, byte))
<1> DEFINE r == ConsumeSynchronized(held, size, byte)
           grown == Append(held, byte)
<1> USE FrameSizes
<1>0. /\ held \in Seq(AllBytes) /\ grown \in Seq(AllBytes)
      /\ Len(held) \in Nat /\ Len(grown) = Len(held) + 1
      /\ \A i \in 1..Len(held) : grown[i] = held[i]
      /\ grown[Len(held) + 1] = byte
  BY GrownBuffer DEF Partial
<1>8. Len(held) \in Nat /\ MaximumFrameSize \in Nat
  BY <1>0
<1>1. Partial(<<>>, 0)
  BY DEF Partial
<1>2. byte = "B" => Partial(<<byte>>, 0)
  BY DEF Partial
<1>3. ASSUME NEW s, NEW n, Partial(s, n),
             s = grown \/ (s = <<byte>> /\ byte = "B") \/ s = <<>>
      PROVE  Follows(held, byte, Keep(s, n))
  BY <1>3 DEF Follows, Keep, None
<1>4. \A status : Follows(held, byte, Drop(Rejected(status)))
  BY <1>1 DEF Follows, Drop, Rejected, None
<1>5. CASE Len(held) < 2
  <2>1. r = Keep(Search(held, byte), 0)
    BY <1>5 DEF ConsumeSynchronized
  <2>2. CASE byte = Magic[Len(held) + 1]
    <3>1. Len(held) = 0 \/ Len(held) = 1
      BY <1>8, <1>5, BeforeMagic
    <3>2. Partial(grown, 0)
      <4>1. CASE Len(held) = 0
        BY <1>0, <2>2, <4>1 DEF Partial
      <4>2. CASE Len(held) = 1
        BY <1>0, <2>2, <4>2 DEF Partial
      <4> QED  BY <3>1, <4>1, <4>2
    <3>3. Search(held, byte) = grown
      BY <2>2 DEF Search
    <3> QED  BY <1>3, <2>1, <3>2, <3>3
  <2>3. CASE byte # Magic[Len(held) + 1] /\ byte = "B"
    BY <1>2, <1>3, <2>1, <2>3 DEF Search
  <2>4. CASE byte # Magic[Len(held) + 1] /\ byte # "B"
    BY <1>1, <1>3, <2>1, <2>4 DEF Search
  <2> QED  BY <2>2, <2>3, <2>4
<1>6. CASE ~(Len(held) < 2) /\ ~(Len(held) < MaximumFrameSize)
  <2>1. FALSE
    BY <1>0, <1>6, PayloadSizes DEF Partial
  <2> QED  BY <2>1
<1>7. CASE ~(Len(held) < 2) /\ Len(held) < MaximumFrameSize
  <2>1. r = Collect(held, size, byte)
    BY <1>0, <1>7 DEF ConsumeSynchronized
  <2>2. CASE Len(held) = 2
    <3>1. r = Keep(grown, 0)
      BY <1>0, <2>1, <2>2 DEF Collect, Partial
    <3>2. Partial(grown, 0)
      BY <1>0, <2>2 DEF Partial
    <3> QED  BY <1>3, <3>1, <3>2
  <2>3. CASE Len(held) = 3 /\ PayloadSize(byte) \in {0, 1}
    <3> DEFINE known == 4 + PayloadSize(byte) + 1
    <3>1. known \in {5, 6} /\ Len(grown) = 4 /\ known # 0 /\ 4 < known
      BY <1>0, <2>3
    <3>2. ~(PayloadSize(byte) > MaximumPayload)
      BY <2>3 DEF MaximumPayload
    <3>3. r = Keep(grown, known)
      BY <2>1, <3>1, <3>2 DEF Collect
    <3>4. Partial(grown, known)
      BY <1>0, <2>3, <3>1 DEF Partial
    <3> QED  BY <1>3, <3>3, <3>4
  <2>4. CASE Len(held) = 3 /\ PayloadSize(byte) = 2
    BY <1>0, <1>4, <2>1, <2>4 DEF Collect, MaximumPayload
  <2>5. CASE Len(held) > 3 /\ Len(grown) < size
    <3>1. r = Keep(grown, size)
      BY <1>0, <2>1, <2>5 DEF Collect
    <3>2. Partial(grown, size)
      BY <1>0, <2>5 DEF Partial
    <3> QED  BY <1>3, <3>1, <3>2
  <2>6. CASE Len(held) > 3 /\ ~(Len(grown) < size) /\ DecodeStatus(grown) = "ok"
    <3>1. size = 4 + PayloadSize(grown[4]) + 1 /\ Len(grown) = size /\ size <= 6 /\ size # 0
      BY <1>0, <2>6, PayloadSizes DEF Partial
    <3>2. r = Drop(FrameReady(grown))
      BY <1>0, <2>1, <2>6, <3>1 DEF Collect
    <3>3. grown[1] = "B" /\ grown[2] = "M"
      BY <1>0, <2>6 DEF Partial
    <3>4. SubSeq(grown, 1, 2) = Magic
      <4>1. /\ Len(SubSeq(grown, 1, 2)) = 2 /\ SubSeq(grown, 1, 2) \in Seq(AllBytes)
            /\ SubSeq(grown, 1, 2)[1] = "B" /\ SubSeq(grown, 1, 2)[2] = "M"
        BY <1>0, <2>6, <3>3
      <4>2. Magic \in Seq(AllBytes)
        BY Letters DEF Magic
      <4>3. Len(SubSeq(grown, 1, 2)) = Len(Magic)
            /\ \A i \in 1..2 : SubSeq(grown, 1, 2)[i] = Magic[i]
        <5>1. 1..2 = {1, 2}
          OBVIOUS
        <5> QED  BY <4>1, <5>1
      <4> HIDE DEF grown
      <4> QED  BY <4>1, <4>2, <4>3, SeqEqual
    <3>5. grown[3] = Version /\ Last(grown) = Checksum
      BY <2>6 DEF DecodeStatus
    <3>6. WellFormed(grown)
      BY <1>0, <2>6, <3>1, <3>4, <3>5 DEF WellFormed
    <3>7. Follows(held, byte, Drop(FrameReady(grown)))
      BY <1>1, <3>3, <3>6 DEF Follows, Drop, FrameReady, None
    <3> QED  BY <3>2, <3>7
  <2>7. CASE Len(held) > 3 /\ ~(Len(grown) < size) /\ DecodeStatus(grown) # "ok"
    <3>1. size # 0
      BY <2>7, PayloadSizes DEF Partial
    <3>2. r = Drop(Rejected(DecodeStatus(grown)))
      BY <1>0, <2>1, <2>7, <3>1 DEF Collect
    <3> QED  BY <1>4, <3>2
  <2>8. PayloadSize(byte) \in {0, 1} \/ PayloadSize(byte) = 2
    BY PayloadSizes
  <2>9. Len(held) = 2 \/ Len(held) = 3 \/ Len(held) > 3
    BY <1>7, <1>8, AtLeastMagic
  <2> QED  BY <2>9, <2>2, <2>3, <2>4, <2>5, <2>6, <2>7, <2>8
<1> QED  BY <1>5, <1>6, <1>7, <1>8

\* The clock before it wraps.
LEMMA SmallRemainder == \A n \in Nat, p \in Nat : n < p => n % p = n
  OBVIOUS

\* The bytes of a frame that follow its magic.
LEMMA AfterMagic ==
    ASSUME NEW t \in Seq(AllBytes)
    PROVE  /\ Magic \o t \in Seq(AllBytes) /\ Len(Magic \o t) = 2 + Len(t)
           /\ (Magic \o t)[1] = "B" /\ (Magic \o t)[2] = "M"
           /\ \A i \in 1..Len(t) : (Magic \o t)[2 + i] = t[i]
<1>1. Magic \in Seq(AllBytes) /\ Len(Magic) = 2 /\ Magic[1] = "B" /\ Magic[2] = "M"
  BY Letters DEF Magic
<1> DEFINE u == Magic \o t
<1>2. /\ u \in Seq(AllBytes) /\ Len(u) = Len(Magic) + Len(t)
      /\ \A i \in 1..Len(Magic) + Len(t) :
            u[i] = IF i <= Len(Magic) THEN Magic[i] ELSE t[i - Len(Magic)]
  BY <1>1, ConcatProperties
<1> HIDE DEF u
<1>3. Len(t) \in Nat
  OBVIOUS
<1>4. u[1] = "B" /\ u[2] = "M"
  BY <1>1, <1>2, <1>3
<1>5. \A i \in 1..Len(t) : u[2 + i] = t[i]
  BY <1>1, <1>2, <1>3
<1> QED  BY <1>1, <1>2, <1>4, <1>5 DEF u

\* The letters of the frames that a peer sends.
LEMMA FrameLetters ==
    \A f \in Frames :
        /\ f \in Seq(AllBytes) /\ Len(f) \in {5, 6}
        /\ f[1] = "B" /\ f[2] = "M" /\ f[3] = "version" /\ f[4] \in {"empty", "full"}
        /\ Len(f) = 5 + PayloadSize(f[4]) /\ f[Len(f)] = "checksum"
<1> SUFFICES ASSUME NEW f \in Frames
             PROVE  /\ f \in Seq(AllBytes) /\ Len(f) \in {5, 6}
                    /\ f[1] = "B" /\ f[2] = "M" /\ f[3] = "version"
                    /\ f[4] \in {"empty", "full"}
                    /\ Len(f) = 5 + PayloadSize(f[4]) /\ f[Len(f)] = "checksum"
  OBVIOUS
<1>0. PayloadSize("empty") = 0 /\ PayloadSize("full") = 1
  BY DEF PayloadSize
<1>1. CASE f = Magic \o <<Version, "empty", Checksum>>
  <2> DEFINE t == <<"version", "empty", "checksum">>
  <2>1. t \in Seq(AllBytes) /\ Len(t) = 3
        /\ t[1] = "version" /\ t[2] = "empty" /\ t[3] = "checksum"
    BY Letters
  <2>2. f = Magic \o t
    BY <1>1 DEF Version, Checksum
  <2> HIDE DEF t
  <2>3. /\ f \in Seq(AllBytes) /\ Len(f) = 5 /\ f[1] = "B" /\ f[2] = "M"
        /\ f[2 + 1] = t[1] /\ f[2 + 2] = t[2] /\ f[2 + 3] = t[3]
    <3>1. 1 \in 1..Len(t) /\ 2 \in 1..Len(t) /\ Len(t) \in 1..Len(t)
      BY <2>1
    <3>2. /\ Magic \o t \in Seq(AllBytes) /\ Len(Magic \o t) = 2 + Len(t)
          /\ (Magic \o t)[1] = "B" /\ (Magic \o t)[2] = "M"
          /\ (Magic \o t)[2 + 1] = t[1] /\ (Magic \o t)[2 + 2] = t[2]
          /\ (Magic \o t)[2 + Len(t)] = t[Len(t)]
      BY <2>1, <3>1, AfterMagic
    <3> QED  BY <2>1, <2>2, <3>2
  <2> QED  BY <1>0, <2>1, <2>3
<1>2. ASSUME NEW b \in {"B", Checksum}, f = Magic \o <<Version, "full", b, Checksum>>
      PROVE  /\ f \in Seq(AllBytes) /\ Len(f) \in {5, 6}
             /\ f[1] = "B" /\ f[2] = "M" /\ f[3] = "version"
             /\ f[4] \in {"empty", "full"}
             /\ Len(f) = 5 + PayloadSize(f[4]) /\ f[Len(f)] = "checksum"
  <2> DEFINE t == <<"version", "full", b, "checksum">>
  <2>1. t \in Seq(AllBytes) /\ Len(t) = 4
        /\ t[1] = "version" /\ t[2] = "full" /\ t[4] = "checksum"
    BY Letters DEF Checksum
  <2>2. f = Magic \o t
    BY <1>2 DEF Version, Checksum
  <2> HIDE DEF t
  <2>3. /\ f \in Seq(AllBytes) /\ Len(f) = 6 /\ f[1] = "B" /\ f[2] = "M"
        /\ f[2 + 1] = t[1] /\ f[2 + 2] = t[2] /\ f[2 + 4] = t[4]
    <3>1. 1 \in 1..Len(t) /\ 2 \in 1..Len(t) /\ Len(t) \in 1..Len(t)
      BY <2>1
    <3>2. /\ Magic \o t \in Seq(AllBytes) /\ Len(Magic \o t) = 2 + Len(t)
          /\ (Magic \o t)[1] = "B" /\ (Magic \o t)[2] = "M"
          /\ (Magic \o t)[2 + 1] = t[1] /\ (Magic \o t)[2 + 2] = t[2]
          /\ (Magic \o t)[2 + Len(t)] = t[Len(t)]
      BY <2>1, <3>1, AfterMagic
    <3> QED  BY <2>1, <2>2, <3>2
  <2> QED  BY <1>0, <2>1, <2>3
<1> QED  BY <1>1, <1>2 DEF Frames

\* The event of the last byte of a frame, and the buffer before it.
Advances(f, held, r) ==
    IF Len(held) + 1 = Len(f) THEN r.event.type = "ready"
    ELSE r.buffer = Append(held, f[Len(held) + 1])

\* What a byte of a frame makes of the beginning of that frame.
LEMMA FrameStep ==
    ASSUME NEW f \in Frames, NEW held, NEW size, Partial(held, size),
           Len(held) \in 1..(Len(f) - 1),
           \A i \in 1..Len(held) : held[i] = f[i]
    PROVE  Advances(f, held, ConsumeSynchronized(held, size, f[Len(held) + 1]))
<1> DEFINE byte == f[Len(held) + 1]
           r == ConsumeSynchronized(held, size, byte)
           grown == Append(held, byte)
<1> USE FrameSizes
<1>0. /\ f \in Seq(AllBytes) /\ Len(f) \in {5, 6}
      /\ f[1] = "B" /\ f[2] = "M" /\ f[3] = "version" /\ f[4] \in {"empty", "full"}
      /\ Len(f) = 5 + PayloadSize(f[4]) /\ f[Len(f)] = "checksum"
  BY FrameLetters
<1>1. /\ held \in Seq(AllBytes) /\ byte \in AllBytes
      /\ grown \in Seq(AllBytes) /\ Len(grown) = Len(held) + 1
      /\ \A i \in 1..Len(held) : grown[i] = held[i]
      /\ grown[Len(held) + 1] = byte
  <2>1. held \in Seq(AllBytes) /\ byte \in AllBytes
    BY <1>0 DEF Partial
  <2> HIDE DEF byte
  <2> QED  BY <2>1, GrownBuffer
<1>8. Len(held) \in Nat
  BY <1>1
<1>2. ASSUME NEW n, Len(held) + 1 # Len(f)
      PROVE  Advances(f, held, Keep(grown, n))
  BY <1>2 DEF Advances, Keep
<1>3. CASE Len(held) = 1
  <2>1. byte = Magic[Len(held) + 1] /\ Len(held) < Len(Magic) /\ Len(held) + 1 # Len(f)
    BY <1>0, <1>3
  <2>2. r = Keep(grown, 0)
    BY <2>1 DEF ConsumeSynchronized, Search
  <2> QED  BY <1>2, <2>1, <2>2
<1>4. CASE Len(held) = 2
  <2>1. r = Collect(held, size, byte) /\ Len(held) + 1 # Len(f)
    BY <1>0, <1>4 DEF ConsumeSynchronized
  <2>2. size = 0 /\ Len(grown) # HeaderSize
    BY <1>1, <1>4 DEF Partial
  <2>3. r = Keep(grown, 0)
    BY <2>1, <2>2 DEF Collect
  <2> QED  BY <1>2, <2>1, <2>3
<1>5. CASE Len(held) = 3
  <2>1. r = Collect(held, size, byte) /\ Len(held) + 1 # Len(f)
    BY <1>0, <1>5 DEF ConsumeSynchronized
  <2>2. PayloadSize(byte) \in {0, 1} /\ Len(grown) = 4
    BY <1>0, <1>1, <1>5 DEF PayloadSize
  <2> DEFINE known == 4 + PayloadSize(byte) + 1
  <2>3. known \in {5, 6} /\ 4 < known /\ ~(PayloadSize(byte) > MaximumPayload)
    BY <2>2 DEF MaximumPayload
  <2>4. r = Keep(grown, known)
    BY <2>1, <2>2, <2>3 DEF Collect
  <2> HIDE DEF known, r, grown
  <2> QED  BY <1>2, <2>1, <2>4 DEF r
<1>6. CASE Len(held) = 4 \/ Len(held) = 5
  <2>1. size = Len(f) /\ size # 0 /\ Len(grown) # 4
    <3>1. Len(held) >= 4 /\ Len(held) + 1 # 4
      BY <1>6, InPayload
    <3>4. held[4] = f[4]
      BY <1>8, <3>1
    <3>2. size = 4 + PayloadSize(f[4]) + 1
      BY <3>1, <3>4 DEF Partial
    <3>3. Len(grown) # 4
      BY <1>1, <3>1
    <3>5. PayloadSize(f[4]) \in {0, 1}
      BY <1>0 DEF PayloadSize
    <3>6. size = Len(f) /\ size # 0
      BY <1>0, <3>2, <3>5
    <3> QED  BY <3>3, <3>6
  <2>2. r = Collect(held, size, byte)
    <3>1. ~(Len(held) < 2) /\ ~(Len(held) >= 6)
      BY <1>6, InPayload
    <3> QED  BY <3>1 DEF ConsumeSynchronized
  <2>3. CASE Len(held) + 1 # Len(f)
    <3>1. Len(grown) < size
      BY <1>0, <1>1, <2>1, <2>3
    <3>2. r = Keep(grown, size)
      BY <2>1, <2>2, <3>1 DEF Collect
    <3> HIDE DEF r, grown
    <3> QED  BY <1>2, <2>3, <3>2 DEF r
  <2>4. CASE Len(held) + 1 = Len(f)
    <3>1. ~(Len(grown) < size)
      BY <1>0, <1>1, <2>1, <2>4
    <3>2. grown[3] = "version" /\ grown[Len(grown)] = "checksum"
      BY <1>0, <1>1, <1>6, <2>4
    <3>3. Len(Magic) + 1 = 3
      OBVIOUS
    <3>4. DecodeStatus(grown) = "ok"
      BY <3>2, <3>3 DEF DecodeStatus, Last, Version, Checksum
    <3>5. r = Drop(FrameReady(grown))
      BY <2>1, <2>2, <3>1, <3>4 DEF Collect
    <3> HIDE DEF r
    <3> QED  BY <2>4, <3>5 DEF Drop, FrameReady, Advances, r
  <2> QED  BY <2>3, <2>4
<1>7. \/ Len(held) = 1 \/ Len(held) = 2 \/ Len(held) = 3 \/ Len(held) = 4
      \/ Len(held) = 5
  BY <1>0, FrameOffsets
<1> HIDE DEF r, byte, grown
<1> QED  BY <1>3, <1>4, <1>5, <1>6, <1>7 DEF r, byte

\* A frame is sent from the point that the receiver has reached.
Sent(f) ==
    /\ buffer # <<>> /\ Len(buffer) + Len(sending) = Len(f)
    /\ \A i \in 1..Len(buffer) : buffer[i] = f[i]
    /\ \A i \in 1..Len(sending) : sending[i] = f[Len(buffer) + i]

\* What the receiver holds is the beginning of a frame, heard in one piece and lately;
\* what a peer has left to send of an intact frame is what the receiver waits for.
StreamInv ==
    /\ Partial(buffer, expected)
    /\ tail \in Seq(AllBytes) /\ sending \in Seq(AllBytes)
    /\ since \in 0..(ClockPeriod + 1) /\ polled \in BOOLEAN /\ intact \in BOOLEAN
    /\ buffer # <<>> =>
          EndsWith(buffer, tail) /\ since <= Timeout + 1 /\ (polled => since <= Timeout)
    /\ event.type \in {"none", "timed_out", "rejected", "ready"}
    /\ event.type = "ready" => WellFormed(event.frame) /\ IsSuffix(event.frame, tail)
    /\ intact /\ sending # <<>> /\ since <= Timeout => \E f \in Frames : Sent(f)

\* The clock measures the silence after the bytes that are held.
LEMMA SilenceIsMeasured ==
    ASSUME StreamInv
    PROVE  Expired <=> buffer # <<>> /\ since > Timeout
<1>1. buffer # <<>> => since \in Nat /\ since < ClockPeriod
  BY ClockOutlastsTimeout DEF StreamInv
<1>2. buffer # <<>> => since % ClockPeriod = since
  BY <1>1, SmallRemainder, ClockOutlastsTimeout
<1> QED  BY <1>2 DEF Expired

\* What was heard before a silence does not count.
Held == IF since > Timeout THEN <<>> ELSE buffer
SizeHeld == IF since > Timeout THEN 0 ELSE expected
Heard(byte) == IF since > Timeout THEN <<byte>> ELSE Append(tail, byte)

\* What is left after a silence is a beginning of a frame that the bytes heard end with.
LEMMA HeldIsPartial ==
    ASSUME StreamInv, NEW byte \in AllBytes
    PROVE  /\ Partial(Held, SizeHeld)
           /\ Heard(byte) \in Seq(AllBytes)
           /\ EndsWith(Append(Held, byte), Heard(byte))
<1>1. /\ Partial(buffer, expected) /\ tail \in Seq(AllBytes)
      /\ buffer \in Seq(AllBytes) /\ (buffer # <<>> => EndsWith(buffer, tail))
  BY DEF StreamInv, Partial
<1>2. CASE since > Timeout
  <2>1. Partial(<<>>, 0)
    BY FrameSizes DEF Partial
  <2>2. EndsWith(<<byte>>, <<byte>>) /\ Append(<<>>, byte) = <<byte>>
    BY DEF EndsWith
  <2> QED  BY <1>2, <2>1, <2>2 DEF Held, SizeHeld, Heard
<1>3. CASE ~(since > Timeout)
  <2>1. Held = buffer /\ SizeHeld = expected /\ Heard(byte) = Append(tail, byte)
    BY <1>3 DEF Held, SizeHeld, Heard
  <2>2. EndsWith(buffer, tail)
    <3>1. buffer = <<>> => EndsWith(buffer, tail)
      BY <1>1 DEF EndsWith
    <3> QED  BY <1>1, <3>1
  <2>3. EndsWith(Append(buffer, byte), Append(tail, byte))
    <3> DEFINE s == Append(buffer, byte)
               t == Append(tail, byte)
    <3>1. /\ Len(s) = Len(buffer) + 1 /\ s[Len(buffer) + 1] = byte
          /\ \A i \in 1..Len(buffer) : s[i] = buffer[i]
      BY <1>1, GrownBuffer
    <3>2. /\ Len(t) = Len(tail) + 1 /\ t[Len(tail) + 1] = byte
          /\ \A i \in 1..Len(tail) : t[i] = tail[i]
      BY <1>1, GrownBuffer
    <3>3. Len(buffer) \in Nat /\ Len(tail) \in Nat /\ Len(buffer) <= Len(tail)
      BY <1>1, <2>2 DEF EndsWith
    <3> HIDE DEF s, t
    <3>4. ASSUME NEW i \in 1..Len(s) PROVE s[i] = t[Len(t) - Len(s) + i]
      <4>1. Len(t) - Len(s) + i = Len(tail) - Len(buffer) + i
        BY <3>1, <3>2, <3>3
      <4>2. CASE i = Len(buffer) + 1
        BY <3>1, <3>2, <3>3, <4>1, <4>2
      <4>3. CASE i \in 1..Len(buffer)
        <5>1. Len(tail) - Len(buffer) + i \in 1..Len(tail)
          BY <3>3, <4>3
        <5>2. buffer[i] = tail[Len(tail) - Len(buffer) + i]
          BY <2>2, <4>3 DEF EndsWith
        <5> QED  BY <3>1, <3>2, <4>1, <4>3, <5>1, <5>2
      <4> QED  BY <3>1, <3>3, <4>2, <4>3
    <3>5. Len(s) <= Len(t)
      BY <3>1, <3>2, <3>3
    <3> QED  BY <3>4, <3>5 DEF EndsWith, s, t
  <2> QED  BY <1>1, <2>1, <2>3
<1> QED  BY <1>2, <1>3

\* What consume() makes of a byte, with the silence before it.
LEMMA Consuming ==
    ASSUME StreamInv, NEW byte \in AllBytes, Consumed(byte)
    PROVE  LET r == ConsumeSynchronized(Held, SizeHeld, byte)
           IN /\ buffer' = r.buffer /\ expected' = r.expected
              /\ event' = r.event \/ (event' = TimedOut /\ r.event = None)
<1>1. IF Expired THEN Held = <<>> /\ SizeHeld = 0 ELSE Held = buffer /\ SizeHeld = expected
  <2>1. CASE Expired
    BY <2>1, SilenceIsMeasured DEF Held, SizeHeld
  <2>2. CASE ~Expired /\ since > Timeout
    <3>1. buffer = <<>>
      BY <2>2, SilenceIsMeasured
    <3>2. expected = 0
      BY <3>1, FrameSizes DEF StreamInv, Partial
    <3> QED  BY <2>2, <3>1, <3>2 DEF Held, SizeHeld
  <2>3. CASE ~Expired /\ ~(since > Timeout)
    BY <2>3 DEF Held, SizeHeld
  <2> QED  BY <2>1, <2>2, <2>3
<1>2. CASE Expired
  BY <1>1, <1>2 DEF Consumed
<1>3. CASE ~Expired
  BY <1>1, <1>3 DEF Consumed
<1> QED  BY <1>2, <1>3

\* The first letter of what is kept of the bytes heard.
LEMMA TailIsHeard ==
    ASSUME NEW heard \in Seq(AllBytes)
    PROVE  Starts(heard) # {} =>
              SubSeq(heard, Min(Starts(heard)), Len(heard)) \in Seq(AllBytes)
<1> SUFFICES ASSUME Starts(heard) # {}
             PROVE  SubSeq(heard, Min(Starts(heard)), Len(heard)) \in Seq(AllBytes)
  OBVIOUS
<1>1. Starts(heard) \subseteq (Len(heard) - 5)..(Len(heard) - 5 + 5)
  BY FrameSizes DEF Starts
<1>2. Min(Starts(heard)) \in Starts(heard)
  <2>1. Len(heard) - 5 \in Int
    OBVIOUS
  <2> QED  BY <1>1, <2>1, ShortestExists
<1>3. Min(Starts(heard)) \in 1..Len(heard)
  BY <1>2 DEF Starts
<1> QED  BY <1>3

\* A byte that arrives, on its own.
LEMMA HearStep ==
    ASSUME StreamInv, NEW byte \in AllBytes, Hear(byte)
    PROVE  /\ Partial(buffer', expected') /\ tail' \in Seq(AllBytes)
           /\ buffer' # <<>> => EndsWith(buffer', tail')
           /\ event'.type \in {"none", "timed_out", "rejected", "ready"}
           /\ event'.type = "ready" =>
                 WellFormed(event'.frame) /\ IsSuffix(event'.frame, tail')
           /\ since' = 0 /\ polled' = polled
<1> DEFINE r == ConsumeSynchronized(Held, SizeHeld, byte)
           grown == Append(Held, byte)
           heard == Heard(byte)
<1>1. /\ Partial(Held, SizeHeld) /\ heard \in Seq(AllBytes) /\ EndsWith(grown, heard)
  BY HeldIsPartial
<1>2. Follows(Held, byte, r)
  BY <1>1, ConsumeStep
<1>3. /\ buffer' = r.buffer /\ expected' = r.expected
      /\ event' = r.event \/ (event' = TimedOut /\ r.event = None)
  BY Consuming DEF Hear
<1>4. tail' = IF Starts(heard) = {} THEN <<>>
              ELSE SubSeq(heard, Min(Starts(heard)), Len(heard))
  BY DEF Hear, TailAfter, Heard, Starts
<1>5. grown \in Seq(AllBytes)
  BY <1>1, GrownBuffer DEF Partial
<1> HIDE DEF r, heard, grown
<1>6. tail' \in Seq(AllBytes)
  <2>1. <<>> \in Seq(AllBytes)
    OBVIOUS
  <2> QED  BY <1>1, <1>4, <2>1, TailIsHeard
<1>7. ASSUME NEW s \in Seq(AllBytes), s # <<>>, s[1] = "B", Len(s) <= MaximumFrameSize,
             EndsWith(s, heard)
      PROVE  EndsWith(s, tail')
  BY <1>1, <1>4, <1>7, TailKeeps
<1>8. Partial(buffer', expected')
  BY <1>2, <1>3 DEF Follows
<1>9. buffer' # <<>> => EndsWith(buffer', tail')
  <2> SUFFICES ASSUME buffer' # <<>> PROVE EndsWith(buffer', tail')
    OBVIOUS
  <2>1. /\ buffer' \in Seq(AllBytes) /\ buffer'[1] = "B" /\ Len(buffer') <= MaximumFrameSize
    <3>1. buffer' \in Seq(AllBytes) /\ (Len(buffer') >= 1 => buffer'[1] = "B")
      BY <1>8 DEF Partial
    <3>2. Len(buffer') \in Nat /\ Len(buffer') >= 1
      BY <3>1
    <3>3. Len(buffer') <= 6
      <4>1. CASE Len(buffer') < 4
        BY <3>2, <4>1
      <4>2. CASE ~(Len(buffer') < 4)
        <5>1. Len(buffer') < expected' /\ expected' <= 6
              /\ expected' = 4 + PayloadSize(buffer'[4]) + 1
          BY <1>8, <3>2, <4>2, FrameSizes DEF Partial
        <5> QED  BY <3>2, <5>1, PayloadSizes
      <4> QED  BY <4>1, <4>2
    <3> QED  BY <3>1, <3>2, <3>3, FrameSizes
  <2>2. buffer' = grown \/ (buffer' = <<byte>> /\ byte = "B")
    BY <1>2, <1>3 DEF Follows, grown
  <2>3. CASE buffer' = grown
    BY <1>1, <1>7, <2>1, <2>3
  <2>4. CASE buffer' = <<byte>> /\ byte = "B"
    <3>1. EndsWith(<<byte>>, heard)
      <4>1. heard[Len(heard)] = byte /\ Len(heard) >= 1
        <5>1. grown[Len(grown)] = byte /\ Len(grown) >= 1
          BY <1>1, GrownBuffer DEF Partial, grown
        <5> QED  BY <1>1, <1>5, <5>1 DEF EndsWith
      <4> QED  BY <1>1, <4>1 DEF EndsWith
    <3> QED  BY <1>7, <2>1, <2>4, <3>1
  <2> QED  BY <2>2, <2>3, <2>4
<1>10. /\ event'.type \in {"none", "timed_out", "rejected", "ready"}
       /\ event'.type = "ready" =>
             /\ event'.frame = grown /\ WellFormed(event'.frame) /\ event'.frame[1] = "B"
  <2>1. CASE event' = r.event
    BY <1>2, <2>1 DEF Follows, grown
  <2>2. CASE event' = TimedOut
    BY <2>2 DEF TimedOut
  <2> QED  BY <1>3, <2>1, <2>2
<1>11. event'.type = "ready" => IsSuffix(event'.frame, tail')
  <2> SUFFICES ASSUME event'.type = "ready" PROVE IsSuffix(grown, tail')
    BY <1>10
  <2>1. Len(grown) <= MaximumFrameSize /\ grown[1] = "B" /\ grown # <<>>
    BY <1>5, <1>10, FrameSizes DEF WellFormed
  <2>2. EndsWith(grown, tail')
    BY <1>1, <1>5, <1>7, <2>1
  <2> QED  BY <1>5, <1>6, <2>2, EndsIsSuffix
<1> QED  BY <1>6, <1>8, <1>9, <1>10, <1>11 DEF Hear

\* The first byte of a frame, heard out of another one, is where its reception begins.
LEMMA StartStep ==
    ASSUME StreamInv, NEW frame \in Frames, StartFrame(frame)
    PROVE  StreamInv'
<1> DEFINE byte == Head(frame)
           r == ConsumeSynchronized(Held, SizeHeld, byte)
<1>1. /\ frame \in Seq(AllBytes) /\ frame # <<>> /\ frame[1] = "B" /\ byte = frame[1]
      /\ byte \in AllBytes /\ Tail(frame) \in Seq(AllBytes)
      /\ Len(Tail(frame)) = Len(frame) - 1
      /\ \A i \in 1..Len(Tail(frame)) : Tail(frame)[i] = frame[i + 1]
  BY FrameLetters, HeadTailProperties
<1>2. /\ Hear(byte) /\ intact' = Searching /\ sending' = Tail(frame)
      /\ polled = FALSE
  BY DEF StartFrame, Hear
<1>3. /\ Partial(buffer', expected') /\ tail' \in Seq(AllBytes)
      /\ buffer' # <<>> => EndsWith(buffer', tail')
      /\ event'.type \in {"none", "timed_out", "rejected", "ready"}
      /\ event'.type = "ready" => WellFormed(event'.frame) /\ IsSuffix(event'.frame, tail')
      /\ since' = 0 /\ polled' = polled
  BY <1>1, <1>2, HearStep
<1>4. ASSUME intact' PROVE buffer' = <<"B">>
  <2>1. Held \in Seq(AllBytes) /\ (Held = <<>> \/ Len(Held) < 2)
    <3>1. Searching /\ buffer \in Seq(AllBytes)
      BY <1>2, <1>4 DEF StreamInv, Partial
    <3>2. Expired => Held = <<>>
      BY SilenceIsMeasured DEF Held
    <3>3. Held = <<>> \/ Held = buffer
      BY DEF Held
    <3>4. <<>> \in Seq(AllBytes)
      OBVIOUS
    <3> QED  BY <3>1, <3>2, <3>3, <3>4, FrameSizes DEF Searching
  <2>2. Held = <<>> \/ Len(Held) = 1
    <3>1. Len(Held) \in Nat /\ (Len(Held) = 0 => Held = <<>>)
      BY <2>1
    <3>2. Held = <<>> \/ Len(Held) = 0 \/ Len(Held) = 1
      BY <2>1, <3>1, BeforeMagic
    <3> QED  BY <3>1, <3>2
  <2>3. r = Keep(<<"B">>, 0)
    <3>1. CASE Held = <<>>
      <4>1. Len(Held) = 0 /\ byte = Magic[Len(Held) + 1] /\ Append(Held, byte) = <<"B">>
        BY <1>1, <3>1, FrameSizes
      <4>2. Len(Held) < Len(Magic)
        BY <4>1, FrameSizes
      <4> QED  BY <4>1, <4>2 DEF ConsumeSynchronized, Search
    <3>2. CASE Len(Held) = 1
      <4>1. byte # Magic[Len(Held) + 1] /\ byte = Magic[1] /\ byte = "B"
        BY <1>1, <3>2, FrameSizes
      <4>2. Len(Held) < Len(Magic)
        BY <3>2, FrameSizes
      <4> QED  BY <4>1, <4>2 DEF ConsumeSynchronized, Search
    <3> QED  BY <2>2, <3>1, <3>2
  <2>4. buffer' = r.buffer
    BY <1>1, <1>2, Consuming DEF Hear
  <2> QED  BY <2>3, <2>4 DEF Keep
<1>5. ASSUME intact' PROVE Sent(frame)'
  <2>1. Len(buffer') = 1 /\ buffer'[1] = "B" /\ buffer' # <<>>
    BY <1>4, <1>5
  <2>2. \A i \in 1..Len(Tail(frame)) : 1 + i = i + 1
    BY <1>1
  <2> QED  BY <1>1, <1>2, <2>1, <2>2, FrameLetters DEF Sent
<1>6. 0 \in 0..(ClockPeriod + 1) /\ 0 <= Timeout + 1 /\ 0 <= Timeout
  BY ClockOutlastsTimeout
<1>7. intact' \in BOOLEAN
  BY <1>2 DEF Searching
<1> QED  BY <1>1, <1>2, <1>3, <1>5, <1>6, <1>7 DEF StreamInv

\* Each next one of its bytes takes the reception further, and the last one ends it.
LEMMA ContinueStep ==
    ASSUME StreamInv, ContinueFrame
    PROVE  /\ StreamInv'
           /\ sending' = <<>> /\ intact' => event'.type = "ready"
<1> DEFINE byte == Head(sending)
           r == ConsumeSynchronized(Held, SizeHeld, byte)
<1>1. /\ sending \in Seq(AllBytes) /\ sending # <<>> /\ byte = sending[1]
      /\ byte \in AllBytes /\ Tail(sending) \in Seq(AllBytes)
      /\ Len(Tail(sending)) = Len(sending) - 1
      /\ \A i \in 1..Len(Tail(sending)) : Tail(sending)[i] = sending[i + 1]
  BY HeadTailProperties DEF ContinueFrame, StreamInv
<1>2. /\ Hear(byte) /\ intact' = (intact /\ since <= Timeout) /\ sending' = Tail(sending)
      /\ polled = FALSE
  BY DEF ContinueFrame, Hear
<1>3. /\ Partial(buffer', expected') /\ tail' \in Seq(AllBytes)
      /\ buffer' # <<>> => EndsWith(buffer', tail')
      /\ event'.type \in {"none", "timed_out", "rejected", "ready"}
      /\ event'.type = "ready" => WellFormed(event'.frame) /\ IsSuffix(event'.frame, tail')
      /\ since' = 0 /\ polled' = polled
  BY <1>1, <1>2, HearStep
<1>4. ASSUME intact'
      PROVE  /\ sending' = <<>> => event'.type = "ready"
             /\ sending' # <<>> => \E f \in Frames : Sent(f)'
  <2>1. intact /\ since <= Timeout
    BY <1>2, <1>4
  <2>2. PICK f \in Frames : Sent(f)
    BY <1>1, <2>1 DEF StreamInv
  <2>3. Held = buffer /\ SizeHeld = expected
    <3>1. ~(since > Timeout)
      BY <2>1, ClockOutlastsTimeout DEF StreamInv
    <3> QED  BY <3>1 DEF Held, SizeHeld
  <2>4. /\ f \in Seq(AllBytes) /\ buffer \in Seq(AllBytes) /\ Partial(buffer, expected)
    BY FrameLetters DEF StreamInv, Partial
  <2>5. /\ Len(buffer) \in Nat /\ Len(buffer) >= 1 /\ Len(sending) \in Nat
        /\ Len(sending) >= 1
        /\ Len(f) = Len(buffer) + Len(sending)
    BY <1>1, <2>2, <2>4 DEF Sent
  <2>6. f[Len(buffer) + 1] = byte
    <3>1. 1 \in 1..Len(sending)
      BY <2>5
    <3> QED  BY <1>1, <2>2, <3>1 DEF Sent
  <2>7. Advances(f, buffer, r)
    <3>1. Len(buffer) \in 1..(Len(f) - 1)
      BY <2>5
    <3>2. \A i \in 1..Len(buffer) : buffer[i] = f[i]
      BY <2>2 DEF Sent
    <3> QED  BY <2>3, <2>4, <2>6, <3>1, <3>2, FrameStep
  <2>8. buffer' = r.buffer /\ (event' = r.event \/ (event' = TimedOut /\ r.event = None))
    BY <1>1, <1>2, Consuming DEF Hear
  <2> HIDE DEF r
  <2>9. CASE sending' = <<>>
    <3>1. Len(buffer) + 1 = Len(f)
      <4>1. Tail(sending) = <<>>
        BY <1>2, <2>9
      <4>2. Len(Tail(sending)) = Len(sending) - 1
        BY <1>1
      <4>3. Len(Tail(sending)) = 0
        BY <4>1, EmptySeq
      <4>4. \A a, b, c \in Nat : c = a + b /\ b - 1 = 0 => a + 1 = c
        OBVIOUS
      <4>5. Len(sending) - 1 = 0
        BY <4>2, <4>3
      <4>6. Len(f) \in Nat
        BY <2>4
      <4> QED  BY <2>5, <4>4, <4>5, <4>6
    <3>2. r.event.type = "ready"
      BY <2>7, <3>1 DEF Advances
    <3> QED  BY <2>8, <2>9, <3>2 DEF None
  <2>10. CASE sending' # <<>>
    <3>1. Len(sending) >= 2 /\ Len(sending') = Len(sending) - 1
      BY <1>1, <1>2, <2>5, <2>10
    <3>2. Len(buffer) + 1 # Len(f)
      BY <2>5, <3>1
    <3>3. buffer' = Append(buffer, byte)
      BY <2>6, <2>7, <2>8, <3>2 DEF Advances
    <3>4. /\ Len(buffer') = Len(buffer) + 1 /\ buffer'[Len(buffer) + 1] = byte
          /\ \A i \in 1..Len(buffer) : buffer'[i] = buffer[i]
          /\ buffer' # <<>>
      BY <1>1, <2>4, <3>3, GrownBuffer
    <3>5. \A i \in 1..Len(buffer') : buffer'[i] = f[i]
      <4> TAKE i \in 1..Len(buffer')
      <4>1. i \in 1..Len(buffer) \/ i = Len(buffer) + 1
        BY <2>5, <3>4
      <4> QED  BY <2>2, <2>6, <3>4, <4>1 DEF Sent
    <3>6. \A i \in 1..Len(sending') : sending'[i] = f[Len(buffer') + i]
      <4> TAKE i \in 1..Len(sending')
      <4>1. i + 1 \in 1..Len(sending) /\ sending'[i] = sending[i + 1]
        BY <1>1, <1>2, <2>5, <3>1
      <4>2. sending[i + 1] = f[Len(buffer) + (i + 1)]
        BY <2>2, <4>1 DEF Sent
      <4>3. Len(buffer) + (i + 1) = Len(buffer') + i
        BY <2>5, <3>1, <3>4
      <4> QED  BY <4>1, <4>2, <4>3
    <3>7. Len(buffer') + Len(sending') = Len(f)
      BY <2>5, <3>1, <3>4
    <3> QED  BY <2>10, <3>4, <3>5, <3>6, <3>7 DEF Sent
  <2> QED  BY <2>9, <2>10
<1>5. 0 \in 0..(ClockPeriod + 1) /\ 0 <= Timeout + 1 /\ 0 <= Timeout
  BY ClockOutlastsTimeout
<1>6. intact' \in BOOLEAN
  BY <1>2 DEF StreamInv
<1> QED  BY <1>1, <1>2, <1>3, <1>4, <1>5, <1>6 DEF StreamInv

\* A byte that belongs to no frame.
LEMMA NoiseStep ==
    ASSUME StreamInv, NEW byte \in AllBytes, Noise(byte)
    PROVE  StreamInv'
<1>1. Hear(byte) /\ intact' = FALSE /\ sending' = sending /\ polled = FALSE
  BY DEF Noise, Hear
<1>2. 0 \in 0..(ClockPeriod + 1) /\ 0 <= Timeout + 1 /\ 0 <= Timeout
  BY ClockOutlastsTimeout
<1> QED  BY <1>1, <1>2, HearStep DEF StreamInv

\* Each step of the line and of the loop keeps the invariant.
LEMMA StreamStep ==
    ASSUME StreamInv, [StreamNext]_streamVars
    PROVE  StreamInv'
<1>1. CASE Poll
  <2>1. CASE Expired
    <3>1. /\ buffer' = <<>> /\ expected' = 0 /\ event' = TimedOut /\ polled' = TRUE
          /\ UNCHANGED <<since, sending, intact, tail>>
      BY <1>1, <2>1 DEF Poll
    <3>2. Partial(<<>>, 0)
      BY FrameSizes DEF Partial
    <3>3. ~(since <= Timeout)
      BY <2>1, SilenceIsMeasured, ClockOutlastsTimeout DEF StreamInv
    <3> QED  BY <3>1, <3>2, <3>3 DEF StreamInv, TimedOut
  <2>2. CASE ~Expired
    <3>1. /\ buffer' = buffer /\ expected' = expected /\ event' = None /\ polled' = TRUE
          /\ UNCHANGED <<since, sending, intact, tail>>
      BY <1>1, <2>2 DEF Poll, receiverVars
    <3>2. buffer # <<>> => since <= Timeout
      BY <2>2, SilenceIsMeasured, ClockOutlastsTimeout DEF StreamInv
    <3> QED  BY <3>1, <3>2 DEF StreamInv, None, Sent
  <2> QED  BY <2>1, <2>2
<1>2. CASE Tick
  <2>1. /\ polled = TRUE /\ polled' = FALSE
        /\ UNCHANGED <<buffer, expected, event, sending, intact, tail>>
        /\ since' = IF since > ClockPeriod THEN since ELSE since + 1
    BY <1>2 DEF Tick, StreamInv
  <2>2. /\ since' \in 0..(ClockPeriod + 1)
        /\ since <= Timeout => since' <= Timeout + 1
        /\ since' <= Timeout => since <= Timeout
    BY <2>1, ClockOutlastsTimeout DEF StreamInv
  <2> QED  BY <2>1, <2>2 DEF StreamInv, Sent
<1>3. CASE UNCHANGED streamVars
  BY <1>3 DEF streamVars, StreamInv, Sent
<1> QED
  BY <1>1, <1>2, <1>3, NoiseStep, StartStep, ContinueStep DEF StreamNext

\* For every timeout, and every clock that does not wrap before the loop polls after
\* it, what is held is a live beginning of a frame (settings_stream.cpp).
THEOREM StreamInvariant == StreamSpec => []StreamInv
<1>1. StreamInit => StreamInv
  <2>1. Partial(<<>>, 0) /\ <<>> \in Seq(AllBytes)
    BY FrameSizes DEF Partial
  <2>2. 0 \in 0..(ClockPeriod + 1)
    BY ClockOutlastsTimeout
  <2>3. None.type = "none"
    BY DEF None
  <2> QED  BY <2>1, <2>2, <2>3 DEF StreamInit, StreamInv
<1>2. StreamInv /\ [StreamNext]_streamVars => StreamInv'
  BY StreamStep
<1> QED  BY <1>1, <1>2, PTL DEF StreamSpec

\* consumeSynchronized(): the receiver never waits for more bytes than its buffer has
\* room for, nor with a complete frame in it.
THEOREM StreamTypeCorrect == StreamSpec => []StreamTypeOK
<1>1. StreamInv => StreamTypeOK
  <2> SUFFICES ASSUME StreamInv PROVE StreamTypeOK
    OBVIOUS
  <2>1. Partial(buffer, expected)
    BY DEF StreamInv
  <2>2. buffer \in Seq(AllBytes) /\ Len(buffer) \in Nat
    BY <2>1 DEF Partial
  <2>3. expected # 0 => Len(buffer) < expected /\ expected <= MaximumFrameSize
    BY <2>1, <2>2, FrameSizes DEF Partial
  <2>4. expected = 0 => Len(buffer) < HeaderSize
    BY <2>1, <2>2, FrameSizes, PayloadSizes DEF Partial
  <2> QED  BY <2>2, <2>3, <2>4 DEF StreamInv, StreamTypeOK
<1> QED  BY <1>1, StreamInvariant, PTL

\* consume(), poll(): a frame that is delivered was heard in one piece, whatever the
\* noise, the silences and the wraps of the clock.
THEOREM DeliveredFramesAreGenuine == StreamSpec => []FramesAreGenuine
<1>1. StreamInv => FramesAreGenuine
  BY DEF StreamInv, FramesAreGenuine
<1> QED  BY <1>1, StreamInvariant, PTL

\* consumeSynchronized(): a frame sent in one piece out of any other is delivered with
\* its last byte, whatever noise came before it.
THEOREM IntactFramesAreDelivered == StreamSpec => IntactFrameIsDelivered
<1>1. StreamInv /\ [StreamNext]_streamVars =>
         [ContinueFrame /\ sending' = <<>> /\ intact' => event'.type = "ready"]_streamVars
  BY ContinueStep
<1> QED  BY <1>1, StreamInvariant, PTL DEF StreamSpec, IntactFrameIsDelivered
=============================================================================
