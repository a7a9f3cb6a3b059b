------------------------------ MODULE Delivery ------------------------------
(***************************************************************************)
(* The way of an answer back to the client, headers and body:               *)
(* OpenAICompatibleAdapter (src/router/adapters/openai_compatible.py) takes *)
(* it from httpx, _try_candidates and the handlers of src/router/proxy.py   *)
(* add their own headers to the upstream's and write the body anew, and     *)
(* Starlette and uvicorn send it.  Of a body the module keeps which bytes   *)
(* it is made of and how many; of the headers, those that say how to read   *)
(* it.                                                                     *)
(***************************************************************************)
EXTENDS Naturals

CONSTANTS
    Size,     \* the length of each body: a function from Bytes to Nat
    None      \* a header that is not there

Coding == {"identity", "gzip"}

\* The upstream's JSON, or the JSON that JSONResponse renders of it with the client's
\* "model" in place; compressed or not.
Bytes == [text : {"upstream", "rendered"}, coding : Coding]

VARIABLES
    stage,    \* "upstream", "adapter", "handler", "server", "client", "cut"
    stream,   \* the client asked for a stream
    status,   \* "ok" or "error" (400 and above)
    body,     \* the body as it stands
    headers   \* [length, coding, chunked]: Content-Length, Content-Encoding, Transfer-Encoding

vars == <<stage, stream, status, body, headers>>

Headers == [length : Nat \cup {None}, coding : Coding, chunked : BOOLEAN]

NoHeaders == [length |-> None, coding |-> "identity", chunked |-> FALSE]

\* The upstream answers, framed one way or the other.  httpx asks for gzip, so that it may
\* well be compressed.
Init ==
    /\ stage = "upstream"
    /\ stream \in BOOLEAN
    /\ status \in {"ok", "error"}
    /\ body \in {b \in Bytes : b.text = "upstream"}
    /\ headers \in [length : {None, Size[body]}, coding : {body.coding}, chunked : BOOLEAN]
    /\ headers.length = None <=> headers.chunked

-----------------------------------------------------------------------------

\* httpx decodes the body, for .json() as for .aiter_bytes(); the headers are copied as
\* they came.  Nothing of the upstream's response is kept for an error.
call_chat_completions ==
    /\ stage = "upstream"
    /\ stage' = "adapter"
    /\ body' = [body EXCEPT !.coding = "identity"]
    /\ UNCHANGED <<stream, status, headers>>

\* A success keeps the headers; when the candidates are spent the last error goes out with
\* none.
_try_candidates ==
    /\ stage = "adapter"
    /\ stage' = "handler"
    /\ headers' = IF status = "ok" THEN headers ELSE NoHeaders
    /\ UNCHANGED <<stream, status, body>>

\* A stream's chunks go out as they are.  A JSONResponse is rendered; it computes a
\* Content-Length unless it is given one.
post_chat_completions ==
    /\ stage = "handler"
    /\ stage' = "server"
    /\ IF stream /\ status = "ok"
       THEN UNCHANGED <<body, headers>>
       ELSE /\ body' = [body EXCEPT !.text = "rendered"]
            /\ headers' = [headers EXCEPT !.length = IF @ = None THEN Size[body'] ELSE @]
    /\ UNCHANGED <<stream, status>>

\* uvicorn sends in chunks when there is no length, or when told to; otherwise it counts,
\* and ends the connection at the first byte too many or with one too few.
uvicorn ==
    /\ stage = "server"
    /\ stage' = IF headers.chunked \/ headers.length \in {None, Size[body]}
                THEN "client" ELSE "cut"
    /\ UNCHANGED <<stream, status, body, headers>>

Next == call_chat_completions \/ _try_candidates \/ post_chat_completions \/ uvicorn

Spec == Init /\ [][Next]_vars

-----------------------------------------------------------------------------
(* What the documentation says and the code does not do.                   *)

\* docs/plan.md:190: any OpenAI client can use the router "with correct behavior and
\* headers"; docs/plan.md:185: "Return response as-is".  An answer arrives whole, under
\* headers that say how to read it.  The upstream's Content-Length goes out before a body
\* that was decompressed and rendered anew, its Content-Encoding before one that is plain.
ArrivesReadable ==
    stage \in {"client", "cut"} => stage = "client" /\ headers.coding = body.coding
=============================================================================
