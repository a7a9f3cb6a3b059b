---------------------------- MODULE AgentControl ----------------------------
(***************************************************************************)
(* An agent that steers the router itself: the tool select_provider of the  *)
(* SMCP plugin (src/plugins/sanctum_router/cli.py) runs the command line    *)
(* client (src/router/cli.py), which calls POST /admin/override; the same   *)
(* agent's inference requests then look their pin up under the session that *)
(* src/router/auth.py makes of what they carry.                             *)
(***************************************************************************)
EXTENDS ProviderTables, Auth

CONSTANTS
    Provider,
    Agent,      \* agents, each with a plugin of its own
    Header,     \* the X-Router-Session-Id each sends with its inference requests, or Absent
    None        \* no provider: the tool called without one

VARIABLES
    override,   \* the table agent_override
    tool,       \* each agent's tool call: "idle", "sent", "done"
    choice,     \* the provider_id it was called with
    picked      \* history: what the agent's call selected; <<>> when the agent cannot know,
                \* or the provider has been deleted since

vars == <<override, tool, choice, picked>>

\* What the client sends, whoever it works for: _headers has the admin key alone.
cli == [bearer |-> ADMIN_KEY, apiKey |-> Absent, header |-> Absent]

\* What an agent's inference requests carry.
inference(a) == [bearer |-> CLIENT_KEY, apiKey |-> Absent, header |-> Header[a]]

pin(session) == IF session \in DOMAIN override THEN override[session] ELSE None

TypeOK ==
    /\ DOMAIN override \subseteq {get_session_id(cli)}
    /\ override \in [DOMAIN override -> Provider]
    /\ tool \in [Agent -> {"idle", "sent", "done"}]
    /\ choice \in [Agent -> Provider \cup {None}]
    /\ picked \in [Agent -> {<<>>} \cup {<<id>> : id \in Provider \cup {None}}]

\* Nobody is pinned yet.
Init ==
    /\ override = <<>>
    /\ tool = [a \in Agent |-> "idle"]
    /\ choice = [a \in Agent |-> None]
    /\ picked = [a \in Agent |-> <<None>>]

-----------------------------------------------------------------------------

\* The tool is called: the plugin starts the client, which sends its request.
select_provider(a, id) ==
    /\ tool[a] = "idle"
    /\ tool' = [tool EXCEPT ![a] = "sent"]
    /\ choice' = [choice EXCEPT ![a] = id]
    /\ picked' = [picked EXCEPT ![a] = <<>>]
    /\ UNCHANGED override

\* The router handles it.
post_override(a) ==
    /\ tool[a] = "sent" /\ require_admin_key(cli)
    /\ LET session == get_session_id(cli)
       IN  override' = IF choice[a] = None THEN Remove(override, {session})
                                           ELSE Upsert(override, session, choice[a])
    /\ tool' = [tool EXCEPT ![a] = "done"]
    /\ picked' = [picked EXCEPT ![a] = <<choice[a]>>]
    /\ UNCHANGED choice

\* A 401, a timeout, no connection: the client prints the error and exits with 1, and the
\* plugin returns an error that leaves open whether the pin was set.
Fails(a) ==
    /\ tool[a] \in {"sent", "done"}
    /\ tool' = [tool EXCEPT ![a] = "idle"]
    /\ picked' = [picked EXCEPT ![a] = <<>>]
    /\ UNCHANGED <<override, choice>>

\* The plugin returns what the client printed: the pin.
Returns(a) ==
    /\ tool[a] = "done"
    /\ tool' = [tool EXCEPT ![a] = "idle"]
    /\ UNCHANGED <<override, choice, picked>>

\* An operator deletes a provider, and with it the pins on it.
delete_provider(p) ==
    /\ override' = Remove(override, {s \in DOMAIN override : override[s] = p})
    /\ picked' = [a \in Agent |-> IF picked[a] = <<p>> THEN <<>> ELSE picked[a]]
    /\ UNCHANGED <<tool, choice>>

Next ==
    \/ \E a \in Agent, id \in Provider \cup {None} : select_provider(a, id)
    \/ \E a \in Agent : post_override(a) \/ Fails(a) \/ Returns(a)
    \/ \E p \in Provider : delete_provider(p)

Spec == Init /\ [][Next]_vars

-----------------------------------------------------------------------------
(* What the documentation says and the code does not do.                   *)

\* docs/PRD.md:174: the session of an override "ties `select_provider()` to the same
\* session as subsequent inference calls"; docs/plan.md:231: where the keys differ "the
\* plugin must send `X-Router-Session-Id` on override calls".  What an agent was told it
\* selected is what its inference requests are pinned to.  The client sends no such header,
\* so the pin lands in the session of the admin key, which no inference request is in.
SelectionTakesEffect ==
    \A a \in Agent :
        tool[a] = "idle" /\ picked[a] # <<>> => picked[a] = <<pin(get_session_id(inference(a)))>>
=============================================================================
