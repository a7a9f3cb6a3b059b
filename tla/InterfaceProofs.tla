-------------------------- MODULE InterfaceProofs --------------------------
(***************************************************************************)
(* What holds where the code does not do what is written of its interfaces: *)
(* when a selection made through the plugin takes effect (AgentControl),    *)
(* and which answers arrive as they can be read (Delivery).                 *)
(***************************************************************************)
EXTENDS AgentControl, TLAPS

\* The session the client's override lands in.
mine == get_session_id(cli)

\* What the agent was told is what the session of the client is pinned to.
Told == \A a \in Agent : picked[a] # <<>> => picked[a] = <<pin(mine)>>

IInv == TypeOK /\ Told

LEMMA IInvInit == Init => IInv
<1> SUFFICES ASSUME Init PROVE IInv
  OBVIOUS
<1>1. TypeOK
  BY DEF Init, TypeOK
<1>2. Told
  BY DEF Init, Told, pin
<1> QED  BY <1>1, <1>2 DEF IInv

\* A single agent at work: nobody else's pin can take the place of its own.
LEMMA IInvStep ==
    ASSUME \A a, b \in Agent : a = b, IInv, [Next]_vars
    PROVE  IInv'
<1>0. TypeOK /\ Told
  BY DEF IInv
<1>1. ASSUME NEW a \in Agent, NEW id \in Provider \cup {None}, select_provider(a, id) PROVE IInv'
  <2>1. /\ tool' = [tool EXCEPT ![a] = "sent"] /\ choice' = [choice EXCEPT ![a] = id]
        /\ picked' = [picked EXCEPT ![a] = <<>>] /\ override' = override
    BY <1>1 DEF select_provider
  <2>2. TypeOK'
    BY <1>0, <2>1 DEF TypeOK
  <2>3. Told'
    BY <1>0, <2>1 DEF TypeOK, Told, pin
  <2> QED  BY <2>2, <2>3 DEF IInv
<1>2. ASSUME NEW a \in Agent, post_override(a) PROVE IInv'
  <2>1. /\ override' = IF choice[a] = None THEN Remove(override, {mine})
                                          ELSE Upsert(override, mine, choice[a])
        /\ tool' = [tool EXCEPT ![a] = "done"]
        /\ picked' = [picked EXCEPT ![a] = <<choice[a]>>] /\ choice' = choice
    BY <1>2 DEF post_override, mine
  <2>2. DOMAIN override \subseteq {mine} /\ override \in [DOMAIN override -> Provider]
          /\ choice[a] \in Provider \cup {None}
    BY <1>0 DEF TypeOK, mine
  <2>3. DOMAIN override' \subseteq {mine} /\ override' \in [DOMAIN override' -> Provider]
    BY <2>1, <2>2 DEF Remove, Upsert
  <2>4. TypeOK'
    <3>1. picked' \in [Agent -> {<<>>} \cup {<<id>> : id \in Provider \cup {None}}]
      BY <1>0, <2>1, <2>2 DEF TypeOK
    <3> QED  BY <1>0, <2>1, <2>3, <3>1 DEF TypeOK, mine
  <2>5. pin(mine)' = choice[a]
    BY <2>1 DEF pin, Remove, Upsert
  <2>6. picked'[a] = <<choice[a]>> /\ \A b \in Agent : b = a
    BY <1>0, <2>1 DEF TypeOK
  <2>7. Told'
    BY <2>5, <2>6 DEF Told, pin
  <2> QED  BY <2>4, <2>7 DEF IInv
<1>3. ASSUME NEW a \in Agent, Fails(a) PROVE IInv'
  BY <1>0, <1>3 DEF Fails, IInv, TypeOK, Told, pin
<1>4. ASSUME NEW a \in Agent, Returns(a) PROVE IInv'
  BY <1>0, <1>4 DEF Returns, IInv, TypeOK, Told, pin
<1>5. ASSUME NEW p \in Provider, delete_provider(p) PROVE IInv'
  <2>1. /\ override' = Remove(override, {s \in DOMAIN override : override[s] = p})
        /\ picked' = [a \in Agent |-> IF picked[a] = <<p>> THEN <<>> ELSE picked[a]]
        /\ UNCHANGED <<tool, choice>>
    BY <1>5 DEF delete_provider
  <2>2. TypeOK'
    <3>1. DOMAIN override' \subseteq DOMAIN override /\ override' \in [DOMAIN override' -> Provider]
      BY <1>0, <2>1 DEF TypeOK, Remove
    <3>2. picked' \in [Agent -> {<<>>} \cup {<<id>> : id \in Provider \cup {None}}]
      <4>1. \A a \in Agent : picked[a] \in {<<>>} \cup {<<id>> : id \in Provider \cup {None}}
        BY <1>0 DEF TypeOK
      <4> QED  BY <2>1, <4>1
    <3> QED  BY <1>0, <2>1, <3>1, <3>2 DEF TypeOK
  <2>3. pin(mine) # p => pin(mine)' = pin(mine)
    BY <2>1 DEF pin, Remove
  <2>4. Told'
    <3>1. SUFFICES ASSUME NEW a \in Agent, picked'[a] # <<>> PROVE picked'[a] = <<pin(mine)'>>
      BY DEF Told, pin
    <3>2. picked[a] # <<p>> /\ picked'[a] = picked[a]
      BY <2>1, <3>1
    <3>3. picked[a] = <<pin(mine)>>
      BY <1>0, <3>1, <3>2 DEF Told
    <3> QED  BY <2>3, <3>2, <3>3
  <2> QED  BY <2>2, <2>4 DEF IInv
<1>6. CASE UNCHANGED vars
  BY <1>0, <1>6 DEF vars, IInv, TypeOK, Told, pin
<1> QED  BY <1>1, <1>2, <1>3, <1>4, <1>5, <1>6 DEF Next

\* PRD.md:174 holds of one agent that names no session, where the two keys are the same:
\* what select_provider returned is what the agent's requests are routed by.  The run that
\* violates the property drops the last two conditions.
THEOREM SelectionOfOne ==
    ASSUME \A a, b \in Agent : a = b,
           \A a \in Agent : Header[a] = Absent,
           CLIENT_KEY = ADMIN_KEY
    PROVE  Spec => []SelectionTakesEffect
<1>1. Init => IInv
  BY IInvInit
<1>2. IInv /\ [Next]_vars => IInv'
  BY IInvStep
<1>3. IInv => SelectionTakesEffect
  <2>1. \A a \in Agent : get_session_id(inference(a)) = mine
    BY DEF inference, mine, cli
  <2> QED  BY <2>1 DEF IInv, Told, SelectionTakesEffect
<1> QED  BY <1>1, <1>2, <1>3, PTL DEF Spec

-----------------------------------------------------------------------------
(* An answer on its way back.                                              *)

CONSTANT Size
VARIABLES stage, stream, status, body, headers

Way == INSTANCE Delivery

plain(text) == [text |-> text, coding |-> "identity"]

\* What an answer needs to be readable: an error, which keeps none of the upstream's headers;
\* or one that was not compressed and is either passed on as it is, sent in chunks, or
\* rendered into as many bytes as it had.
Fits ==
    \/ status = "error"
    \/ /\ headers.coding = "identity"
       /\ stream \/ headers.chunked \/ Size[plain("rendered")] = Size[plain("upstream")]

\* Headers as the upstream framed its answer.
Foreign ==
    /\ headers.length \in {None, Size[[text |-> "upstream", coding |-> headers.coding]]}
    /\ headers.length = None <=> headers.chunked

\* Headers and body as the handler leaves them: a stream, a success and an error.
Streamed == status = "ok" /\ stream /\ body = plain("upstream") /\ Foreign

Rendered ==
    /\ status = "ok" /\ ~stream /\ body = plain("rendered")
    /\ \/ headers.chunked /\ headers.length = Size[body]
       \/ ~headers.chunked /\ Foreign

Failed ==
    /\ status = "error" /\ body = plain("rendered")
    /\ headers.coding = "identity" /\ headers.length = Size[body]

Given == Streamed \/ Rendered \/ Failed

Wire == headers.chunked \/ headers.length \in {None, Size[body]}

Typed ==
    /\ stage \in {"upstream", "adapter", "handler", "server", "client", "cut"}
    /\ stream \in BOOLEAN /\ status \in {"ok", "error"}
    /\ headers = [length |-> headers.length, coding |-> headers.coding, chunked |-> headers.chunked]
    /\ headers.coding \in {"identity", "gzip"} /\ headers.chunked \in BOOLEAN

\* Stage by stage, how headers and body stand.
Held ==
    /\ Typed
    /\ stage = "upstream" => Foreign /\ body = [text |-> "upstream", coding |-> headers.coding]
    /\ stage = "adapter" => Foreign /\ body = plain("upstream")
    /\ stage = "handler" => /\ body = plain("upstream")
                            /\ IF status = "ok" THEN Foreign ELSE headers = Way!NoHeaders
    /\ stage = "server" => Given
    /\ stage = "client" => Given /\ Wire
    /\ stage = "cut" => Given /\ ~Wire

LEMMA HeldInit == Way!Init => Held
<1> SUFFICES ASSUME Way!Init PROVE Held
  OBVIOUS
<1>1. PICK b \in Way!Bytes : body = b /\ b.text = "upstream"
  BY DEF Way!Init
<1>2. PICK l \in {None, Size[body]}, c \in BOOLEAN :
        headers = [length |-> l, coding |-> body.coding, chunked |-> c]
  <2>1. headers \in [length : {None, Size[body]}, coding : {body.coding}, chunked : BOOLEAN]
    BY DEF Way!Init
  <2> QED  BY <2>1
<1>3. body.coding \in {"identity", "gzip"} /\ body = [text |-> "upstream", coding |-> body.coding]
  BY <1>1 DEF Way!Bytes, Way!Coding
<1>4. stage = "upstream" /\ stream \in BOOLEAN /\ status \in {"ok", "error"}
        /\ (headers.length = None <=> headers.chunked)
  BY DEF Way!Init
<1>5. headers.length = l /\ headers.coding = body.coding /\ headers.chunked = c
  BY <1>2
<1>6. Typed
  BY <1>2, <1>3, <1>4, <1>5 DEF Typed
<1>7. Foreign /\ body = [text |-> "upstream", coding |-> headers.coding]
  BY <1>3, <1>4, <1>5 DEF Foreign
<1> QED  BY <1>4, <1>6, <1>7 DEF Held

LEMMA HeldStep == Held /\ [Way!Next]_(Way!vars) => Held'
<1> SUFFICES ASSUME Held, [Way!Next]_(Way!vars) PROVE Held'
  OBVIOUS
<1>0. Typed
  BY DEF Held
<1>1. CASE Way!call_chat_completions
  <2>1. /\ stage' = "adapter" /\ UNCHANGED <<stream, status, headers>>
        /\ Foreign /\ body' = plain("upstream")
    BY <1>1 DEF Way!call_chat_completions, Held, plain
  <2>2. Foreign' /\ Typed'
    BY <1>0, <2>1 DEF Foreign, Typed
  <2> QED  BY <2>1, <2>2 DEF Held, plain
<1>2. CASE Way!_try_candidates
  <2>1. /\ stage' = "handler" /\ UNCHANGED <<stream, status, body>>
        /\ Foreign /\ body = plain("upstream")
        /\ headers' = IF status = "ok" THEN headers ELSE Way!NoHeaders
    BY <1>2 DEF Way!_try_candidates, Held
  <2>2. IF status' = "ok" THEN Foreign' ELSE headers' = Way!NoHeaders
    BY <2>1 DEF Foreign
  <2>3. Typed'
    BY <1>0, <2>1 DEF Typed, Way!NoHeaders
  <2> QED  BY <2>1, <2>2, <2>3 DEF Held, plain, Way!NoHeaders
<1>3. CASE Way!post_chat_completions
  <2>1. /\ stage' = "server" /\ UNCHANGED <<stream, status>> /\ body = plain("upstream")
        /\ IF status = "ok" THEN Foreign ELSE headers = Way!NoHeaders
    BY <1>3 DEF Way!post_chat_completions, Held
  <2>2. CASE stream /\ status = "ok"
    <3>1. UNCHANGED <<body, headers>>
      BY <1>3, <2>2 DEF Way!post_chat_completions
    <3>2. Streamed' /\ Typed'
      BY <1>0, <2>1, <2>2, <3>1 DEF Streamed, Typed, Foreign, plain
    <3> QED  BY <2>1, <3>2 DEF Held, Given
  <2>3. CASE ~(stream /\ status = "ok")
    <3>1. /\ body' = plain("rendered")
          /\ headers' = [headers EXCEPT !.length = IF @ = None THEN Size[body'] ELSE @]
      BY <1>3, <2>1, <2>3 DEF Way!post_chat_completions, plain
    <3>2. /\ headers'.length = IF headers.length = None THEN Size[body'] ELSE headers.length
          /\ headers'.coding = headers.coding /\ headers'.chunked = headers.chunked
          /\ Typed'
      BY <1>0, <2>1, <3>1 DEF Typed
    <3>3. CASE status = "ok"
      <4>1. Rendered'
        BY <1>0, <2>1, <2>3, <3>1, <3>2, <3>3 DEF Typed, Rendered, Foreign, plain
      <4> QED  BY <2>1, <3>2, <4>1 DEF Held, Given
    <3>4. CASE status = "error"
      <4>1. Failed'
        BY <2>1, <3>1, <3>2, <3>4 DEF Failed, Way!NoHeaders, plain
      <4> QED  BY <2>1, <3>2, <4>1 DEF Held, Given
    <3> QED  BY <1>0, <3>3, <3>4 DEF Typed
  <2> QED  BY <2>2, <2>3
<1>4. CASE Way!uvicorn
  <2>1. /\ stage' = IF Wire THEN "client" ELSE "cut"
        /\ UNCHANGED <<stream, status, body, headers>> /\ Given
    BY <1>4 DEF Way!uvicorn, Held, Wire
  <2>2. Typed' /\ Given' /\ Wire' = Wire
    BY <1>0, <2>1 DEF Typed, Given, Streamed, Rendered, Failed, Foreign, Wire, plain
  <2> QED  BY <2>1, <2>2 DEF Held
<1>5. CASE UNCHANGED Way!vars
  BY <1>5 DEF Way!vars, Held, Typed, Foreign, Given, Streamed, Rendered, Failed, Wire, plain,
              Way!NoHeaders
<1> QED  BY <1>1, <1>2, <1>3, <1>4, <1>5 DEF Way!Next

\* docs/plan.md:190 holds of exactly the answers that fit: of every error, and of a success
\* that was not compressed and is streamed, chunked or rendered to its old length.  Any other
\* is cut short or unreadable, whatever the sizes; the run that violates the property meets
\* one such answer.
THEOREM ReadableIfFits ==
    Way!Spec => [](stage \in {"client", "cut"} => (Way!ArrivesReadable <=> Fits))
<1> DEFINE Exactly == stage \in {"client", "cut"} => (Way!ArrivesReadable <=> Fits)
<1>1. Held => Exactly
  <2> SUFFICES ASSUME Held, stage \in {"client", "cut"} PROVE Way!ArrivesReadable <=> Fits
    OBVIOUS
  <2>1. Typed /\ Given /\ (stage = "client" <=> Wire)
    BY DEF Held
  <2>2. Way!ArrivesReadable <=> Wire /\ headers.coding = body.coding
    BY <2>1 DEF Way!ArrivesReadable
  <2>3. CASE Streamed
    BY <2>1, <2>2, <2>3 DEF Streamed, Foreign, Fits, Wire, plain, Typed
  <2>4. CASE Rendered
    BY <2>1, <2>2, <2>4 DEF Rendered, Foreign, Fits, Wire, plain, Typed
  <2>5. CASE Failed
    BY <2>1, <2>2, <2>5 DEF Failed, Fits, Wire, plain
  <2> QED  BY <2>1, <2>3, <2>4, <2>5 DEF Given
<1> HIDE DEF Exactly
<1>2. Way!Spec => []Exactly
  BY <1>1, HeldInit, HeldStep, PTL DEF Way!Spec
<1> QED  BY <1>2 DEF Exactly
=============================================================================
