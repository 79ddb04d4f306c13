------------------------------ MODULE Binding ------------------------------
(***************************************************************************)
(* The OpenAI chat binding (binding_openai.py): how the body of a chat     *)
(* request becomes the fragments Gateway.handle walks, and how the         *)
(* statuses handle returns become one salt for the whole request, the      *)
(* request the engine is sent and the cache_status the client reads.       *)
(* Everything here is computed from the body and the call of one thread;   *)
(* the binding keeps no state of its own.                                  *)
(***************************************************************************)
EXTENDS Gateway

CONSTANTS Bodies,       \* the bodies clients may send
          Unsupported   \* an intent of a version other than 1

\* One element of tools or messages.  content is its model-visible text with
\* the kind of element in front; id and reuse_within are those of its intent.
Items == [content : STRING, intent : Constraints \cup {None, Malformed, Unsupported},
          id : STRING \cup {None}, reuse_within : Nat \cup {None},
          part_intent : BOOLEAN]   \* a content part of it carries a cache_intent

\* The salts a caller may write into its body are those it might guess.
CallerSalts == [partition : Partitions, namespaces : Seq(STRING)]

ASSUME UnsupportedAssumption ==
    Unsupported \notin {None, Malformed} /\ Unsupported \notin Constraints
ASSUME BodiesAssumption ==
    Bodies \subseteq [text : {"json", "broken", "undecodable"}, tools : Seq(Items),
                      messages : Seq(Items), cache_salt : CallerSalts \cup {None}]

-----------------------------------------------------------------------------
\* From a body to fragments (extract_fragments)

\* The ids made up by place; bodies hold no more elements than these.
ToolIds == <<"tool[0]", "tool[1]", "tool[2]">>
MessageIds == <<"message[0]", "message[1]", "message[2]">>

FragmentOf(item, made_up) ==
    [id |-> IF item.id = None THEN made_up ELSE item.id, content |-> item.content,
     intent |-> IF item.intent = Unsupported THEN Malformed ELSE item.intent,
     approx_class |-> None]

\* Every tools element, then every messages element.
Extracted(b) == [i \in DOMAIN b.tools |-> FragmentOf(b.tools[i], ToolIds[i])]
                \o [i \in DOMAIN b.messages |-> FragmentOf(b.messages[i], MessageIds[i])]

ItemsOf(b) == b.tools \o b.messages

\* loads_strict or extract_fragments raises.
Rejected(b) == b.text = "broken" \/ \E i \in DOMAIN b.messages : b.messages[i].part_intent

RequestOf(b, auth) == [auth |-> auth, fragments |-> Extracted(b), equivalence_declared |-> FALSE]

-----------------------------------------------------------------------------
\* What prepare answers when handle raised

ErrorCodes == {"cache_intent_invalid", "cache_intent_unsupported_version",
               "cache_intent_unenforceable"}

\* Mutant: the name of the exception instead of a code.
ErrorName(t, b) == task[t].error

\* Mutant: the base class is caught before UnsupportedVersion.
ErrorCodeByBase(t, b) ==
    CASE task[t].error \in {"UnenforceableConstraint", "DuplicateFragmentId"} ->
            "cache_intent_unenforceable"
      [] task[t].error = "Invalid" /\ ItemsOf(b)[task[t].pos].intent = Unsupported ->
            "cache_intent_unenforceable"
      [] OTHER -> "cache_intent_invalid"

\* Only UnsupportedVersion is told apart from the other defects of an intent, and
\* everything else that handle raises on its own account is one code.
ErrorCode(t, b) ==
    CASE task[t].error \in {"UnenforceableConstraint", "DuplicateFragmentId"} ->
            "cache_intent_unenforceable"
      [] task[t].error = "Invalid" /\ ItemsOf(b)[task[t].pos].intent = Unsupported ->
            "cache_intent_unsupported_version"
      [] OTHER -> "cache_intent_invalid"

-----------------------------------------------------------------------------
\* From the statuses to one salt (_lower_request_salt).  ss is what handle
\* returned.

HasSalts == Backend \in {"salt-only", "vllm"}

GovernedAt(ss) == {i \in DOMAIN ss : ss[i].effective_reuse # None}

Lowers(ss) == HasSalts /\ GovernedAt(ss) # {}

\* Mutant: a fragment the gateway has bypassed does not narrow the others.
MustBypassAsked(ss) ==
    \E i \in GovernedAt(ss) : \/ ss[i].effective_reuse = "none"
                             \/ ss[i].effective_retention_mode = "forbid"

MustBypass(ss) ==
    \E i \in GovernedAt(ss) : \/ ss[i].outcome = "bypass"
                             \/ ss[i].effective_reuse = "none"
                             \/ ss[i].effective_retention_mode = "forbid"

\* Mutant: the boundary of the first governed fragment.
FirstShare(ss) == IF MustBypass(ss) THEN "request" ELSE ss[Min(GovernedAt(ss))].effective_share

Narrowest(ss) == IF MustBypass(ss) THEN "request"
                 ELSE IntersectShareMax({ss[i].effective_share : i \in GovernedAt(ss)})

\* Mutant: those of the first governed fragment that has any.
FirstNamespaces(ss) ==
    LET named == {i \in GovernedAt(ss) : ss[i].namespaces # <<>>}
    IN  IF named = {} THEN <<>> ELSE ss[Min(named)].namespaces

SaltNamespaces(ss) ==
    LET named == {i \in GovernedAt(ss) : ss[i].namespaces # <<>>}
    IN  IF named = {} THEN <<>> ELSE ss[Max(named)].namespaces

\* The salt of the request of t; None where the backend takes none.
DerivedSalt(t) ==
    LET ss == task[t].statuses
    IN  IF ~Lowers(ss) THEN None
        ELSE [partition |-> PartitionFor(Narrowest(ss), task[t].request.auth, task[t].id),
              namespaces |-> SaltNamespaces(ss)]

\* Mutant: what the caller wrote stays where no salt is derived.
SaltUnstripped(t, b) == IF DerivedSalt(t) = None THEN b.cache_salt ELSE DerivedSalt(t)

\* The caller's cache_salt is stripped before the derived one is set.
UpstreamSalt(t, b) == DerivedSalt(t)

\* Mutant: statuses keep what handle said.
Unlowered(ss) == ss

\* The statuses, rewritten to what the salt does.
Lowered(ss) ==
    [i \in DOMAIN ss |->
       IF ~Lowers(ss) \/ i \notin GovernedAt(ss) THEN ss[i]
       ELSE IF Narrowest(ss) # "request" THEN [ss[i] EXCEPT !.effective_share = Narrowest(ss)]
       ELSE [ss[i] EXCEPT !.outcome = "bypass", !.effective_share = "request",
                          !.retention = IF ss[i].effective_retention_mode = "forbid"
                                        THEN "forbidden" ELSE "declined"]]

-----------------------------------------------------------------------------
\* What the client reads (as_cache_status, _hint_status, attach_status)

ReuseWithinMax == 3600

HintStatus(item) == IF item.reuse_within = None \/ Backend # "in-memory" THEN None
                    ELSE IF item.reuse_within > ReuseWithinMax THEN "clipped" ELSE "accepted"

CacheStatus(t, b) ==
    LET ss == Lowered(task[t].statuses)
    IN  [i \in DOMAIN ss |->
           [id |-> task[t].order[i].id, outcome |-> ss[i].outcome,
            effective_share |-> ss[i].effective_share, retention |-> ss[i].retention,
            hint |-> HintStatus(ItemsOf(b)[i])]]

\* The capability object, as far as it differs between gateways.
CapabilitiesDocument ==
    [retention_modes |-> Modes, retention_max_age |-> SupportsMaxAge(Backend),
     reuse |-> IF SupportsApproximate(Backend) THEN ReuseLevels ELSE ReuseLevels \ {"approximate"},
     share_max |-> Scopes, reuse_within_max |-> IF Backend = "in-memory" THEN ReuseWithinMax ELSE None,
     per_fragment_share |-> Backend = "in-memory", on_unenforceable |-> OnUnenforceable]
=============================================================================
