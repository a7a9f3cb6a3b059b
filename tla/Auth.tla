-------------------------------- MODULE Auth --------------------------------
(***************************************************************************)
(* Who may ask, and on behalf of which session (src/router/auth.py).  The   *)
(* module keeps no state: it compares what a request carries with two       *)
(* environment variables that are read once, at import.                     *)
(***************************************************************************)
CONSTANTS
    Sender,      \* what a request may carry: [bearer, apiKey, header], each possibly Absent
    CLIENT_KEY,  \* ROUTER_CLIENT_KEY, Absent when it is unset or empty
    ADMIN_KEY,   \* ROUTER_ADMIN_KEY
    Absent

ASSUME SenderAssumption == \A q \in Sender : DOMAIN q = {"bearer", "apiKey", "header"}

ALLOW_ANON_DEV == CLIENT_KEY = Absent /\ ADMIN_KEY = Absent

\* /v1/*: Authorization: Bearer.  Setting one of the two keys closes both interfaces.
require_client_key(q) ==
    ALLOW_ANON_DEV \/ (CLIENT_KEY # Absent /\ q.bearer = CLIENT_KEY)

\* /admin/*: the same, or X-API-Key.
require_admin_key(q) ==
    ALLOW_ANON_DEV \/ (ADMIN_KEY # Absent /\ ADMIN_KEY \in {q.apiKey, q.bearer})

\* A digest is told from others by the token it is made of.
sha256(token) == <<"token", token>>

\* X-Router-Session-Id, else the digest of the bearer token; nobody's is one more digest.
\* X-API-Key does not count.  A header that repeats the digest of a token names the session
\* of that token: nothing keeps the two kinds of names apart.
get_session_id(q) == IF q.header # Absent THEN q.header ELSE sha256(q.bearer)

Session == {get_session_id(q) : q \in Sender}
=============================================================================
