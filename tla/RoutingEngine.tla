--------------------------- MODULE RoutingEngine ---------------------------
(***************************************************************************)
(* How a request is matched with the providers that may serve it            *)
(* (src/router/routing_engine.py).  The routing engine keeps no state of    *)
(* its own: it reads the provider tables and the in-memory health and       *)
(* credit maps and returns an ordered list.  The operators below take those *)
(* as arguments.                                                           *)
(***************************************************************************)
EXTENDS ProviderTables

CONSTANTS
    Provider,   \* provider ids, those not (or no longer) in the table included
    Name,       \* the values a client may write in the body's "model"
    Model,      \* upstream model names, the ones a provider lists
    Alias,      \* the model_aliases table: alias -> canonical id
    ModelPart,  \* canonical id -> upstream model ("<provider>+<model>" -> model)
    Row,        \* the rows of the providers table an operator may store
    None        \* Python's None where a provider id or a model is expected, and a models column
                \* that holds a JSON value nothing can be looked for in (null, a number, true)

\* What a request may require of a provider.
Feature == {"tools", "stream", "multimodal"}

ASSUME NoneAssumption == None \notin Provider
ASSUME ProviderAssumption == IsFiniteSet(Provider)
ASSUME AliasAssumption ==
    /\ DOMAIN Alias \subseteq Name
    /\ \A n \in DOMAIN Alias : Alias[n] \in Name
    /\ ModelPart \in [Name -> Model]
ASSUME RowAssumption ==
    Row \subseteq [priority : Int, models : (SUBSET Model) \cup {None}, supports : SUBSET Feature]

-----------------------------------------------------------------------------
(* Model ids.                                                              *)

resolve_canonical_model(name) == IF name \in DOMAIN Alias THEN Alias[name] ELSE name

upstream_model_part(canonical) == ModelPart[canonical]

-----------------------------------------------------------------------------
(* Candidates.  The code filters an ordered list; a filter keeps the order,  *)
(* so the same list is the ordering of the filtered set.                     *)

\* The models of a row are the names "in" finds in its column: the members of a JSON list, the
\* parts of a JSON text, none where the column is no JSON.  On None the search raises, for
\* every model that is asked for.
searchable(ps, providers) == \A p \in ps : providers[p].models # None

providers_with_model(ps, providers, model) == {p \in ps : model \in providers[p].models}

filter_by_capability(ps, providers, needs) == {p \in ps : needs \subseteq providers[p].supports}

filter_available(ps, healthy, below) == {p \in ps : healthy[p] /\ ~below[p]}

\* The providers that can take a request with these needs now.
Available(providers, priority, healthy, below, model, needs) ==
    LET with_model == providers_with_model(Routed(providers, priority), providers, model)
    IN  filter_available(filter_by_capability(with_model, providers, needs), healthy, below)

\* Mutant: a pin that cannot be honoured is not passed over.
Chosen_Strict(cands, override) ==
    IF override \in Range(cands) THEN override
    ELSE IF override # None \/ cands = <<>> THEN None ELSE cands[1]

\* The id resolve_candidates returns beside the list: the session's override when it
\* is available, else the head of the list.
Chosen(cands, override) ==
    IF override \in Range(cands) THEN override
    ELSE IF cands = <<>> THEN None ELSE cands[1]
=============================================================================
