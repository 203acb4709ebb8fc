---------------------------- MODULE ConfirmGate ----------------------------
(***************************************************************************)
(* The gate chain of the dispatcher (ewsmcp/tools/base.py, confirm.py) as  *)
(* the tools that leave the mailbox meet it: send_draft, whose token binds *)
(* the draft's content and whose retries are idempotent, and the tools of  *)
(* class "send" whose token binds their literal arguments (Acts:           *)
(* respond_to_event, set_oof).                                             *)
(*                                                                         *)
(* dispatch() runs on one event loop: what happens between two awaits is   *)
(* one step.  The awaits are the preview fetch and the handler's call on   *)
(* the EWS pool.  Kill-switch, tier, cold gate and recipient guard depend  *)
(* on settings alone and are taken to let the call through; a call they    *)
(* refuse changes nothing here.                                            *)
(***************************************************************************)
EXTENDS Integers, Sequences, FiniteSets

CONSTANTS
  Calls,         \* dispatches in flight at once
  Drafts,
  Acts,          \* argument sets of confirmed tools without a preview hook
  Contents,      \* what content_hash tells apart
  Keys,          \* idempotency keys
  Gone, NoKey, NoToken, NoReceipt,
  Ticks,         \* instants per second: time.time() against int(time.time())
  TTL,           \* CONFIRM_TTL_SECONDS
  Window,        \* 3600 s of _rate_guard, in ticks
  Cap,           \* EWS_MAX_SENDS_PER_HOUR (0 turns the guard off)
  IdemTTL,       \* _IDEMPOTENCY_TTL_S, in ticks
  IdemMax,       \* _IDEMPOTENCY_MAX
  Threshold,     \* CIRCUIT_FAILURE_THRESHOLD
  OpenTicks,     \* CIRCUIT_OPEN_SECONDS, in ticks
  FixedSecret,   \* SEND_CONFIRM_SECRET is set
  MaxTime, MaxTokens, MaxRestarts   \* bounds

ASSUME GateAssumption ==
  /\ Ticks \in Nat \ {0} /\ TTL \in Nat /\ Window \in Nat
  /\ Cap \in Nat \ {0} /\ IdemTTL \in Nat /\ IdemMax \in Nat \ {0}
  /\ Threshold \in Nat \ {0} /\ OpenTicks \in Nat
  /\ FixedSecret \in BOOLEAN
  /\ MaxTime \in Nat /\ MaxTokens \in Nat /\ MaxRestarts \in Nat
  /\ Drafts \cap Acts = {} /\ Gone \notin Contents \cup Drafts \cup Acts
  /\ NoKey \notin Keys

VARIABLES
  clock,
  draft,         \* content of each draft, Gone once it left Drafts
  \* Process memory.
  boots,         \* restarts so far: each brings a new _PROCESS_SECRET
  consumed,      \* _CONSUMED
  sendTimes,     \* _SEND_TIMES
  idem,          \* _IDEMPOTENT_SENDS
  failures, openUntil,
  \* Dispatches: where each one is, its arguments, the content its preview
  \* fetched, and whether the draft was edited after that fetch.
  pc, req, content, edited,
  \* History.
  tokens,        \* minted
  used,          \* accepted by the gate
  again,         \* accepted again, and when
  forgot,        \* used, then forgotten by a restart that kept the secret
  sent,          \* what left the mailbox
  passed         \* when the rate guard let a call through

callVars == <<pc, req, content, edited>>
tokenVars == <<tokens, consumed, used, again, forgot>>
vars == <<clock, draft, boots, sendTimes, idem, failures, openUntil, callVars,
          tokenVars, sent, passed>>

-----------------------------------------------------------------------------
Forms == {"alias", "raw"}
Targets == Drafts \cup Acts
Second == clock \div Ticks

\* The HMAC secret in use.
Secret == IF FixedSecret THEN 0 ELSE boots

Tokens == [target : Targets, form : Forms, content : Contents \cup Acts,
           exp : Nat, secret : Nat]

RequestsWith(T) ==
  [target : Drafts, form : Forms, token : T, key : Keys \cup {NoKey}]
    \cup [target : Acts, form : {"raw"}, token : T, key : {NoKey}]

NoRequest == [target |-> Gone, form |-> "raw", token |-> NoToken, key |-> NoKey]

Receipts == [draft : Drafts, ts : Nat]

TypeOK ==
  /\ clock \in Nat /\ boots \in Nat
  /\ draft \in [Drafts -> Contents \cup {Gone}]
  /\ tokens \subseteq Tokens /\ consumed \subseteq tokens
  /\ used \subseteq tokens /\ forgot \subseteq tokens
  /\ again \subseteq [token : tokens, at : Nat]
  /\ sendTimes \in Seq(Nat) /\ passed \in Seq(Nat)
  /\ idem \in [Keys -> Receipts \cup {NoReceipt}]
  /\ failures \in 0 .. (Threshold - 1) /\ openUntil \in Nat
  /\ pc \in [Calls -> {"idle", "preview", "gate", "work", "record"}]
  /\ req \in [Calls -> RequestsWith(tokens \cup {NoToken}) \cup {NoRequest}]
  /\ content \in [Calls -> Contents \cup {Gone}]
  /\ edited \in [Calls -> BOOLEAN]
  /\ sent \subseteq [target : Targets, content : Contents \cup Acts,
                     token : tokens \cup {NoToken}, edited : BOOLEAN]

Init ==
  /\ clock = 0 /\ boots = 0
  /\ draft \in [Drafts -> Contents]
  /\ tokens = {} /\ consumed = {} /\ used = {} /\ again = {} /\ forgot = {}
  /\ sendTimes = <<>> /\ passed = <<>>
  /\ idem = [k \in Keys |-> NoReceipt]
  /\ failures = 0 /\ openUntil = 0
  /\ pc = [c \in Calls |-> "idle"]
  /\ req = [c \in Calls |-> NoRequest]
  /\ content = [c \in Calls |-> Gone]
  /\ edited = [c \in Calls |-> FALSE]
  /\ sent = {}

-----------------------------------------------------------------------------
(***************************************************************************)
(* Pieces of dispatch().                                                   *)
(***************************************************************************)
Finish(c) ==
  /\ pc' = [pc EXCEPT ![c] = "idle"]
  /\ req' = [req EXCEPT ![c] = NoRequest]
  /\ content' = [content EXCEPT ![c] = Gone]
  /\ edited' = [edited EXCEPT ![c] = FALSE]

CircuitClosed == openUntil <= clock

\* Seeded fault: the count is kept when the circuit opens.
UpstreamFailureKeepingCount ==
  /\ failures' = failures + 1
  /\ openUntil' = IF failures + 1 >= Threshold THEN clock + OpenTicks ELSE openUntil

UpstreamFailure ==
  IF failures + 1 >= Threshold
    THEN failures' = 0 /\ openUntil' = clock + OpenTicks
    ELSE failures' = failures + 1 /\ UNCHANGED openUntil

\* A receipt of _IDEMPOTENT_SENDS that _idempotency_get at `now` returns.
Live(k, now) == idem[k] # NoReceipt /\ now - idem[k].ts <= IdemTTL

\* Both lookups drop what has expired first.
Pruned(k, now) ==
  IF k = NoKey THEN idem
               ELSE [j \in Keys |-> IF Live(j, now) THEN idem[j] ELSE NoReceipt]

\* _send_confirm_needed.  The receipt holds the raw id the handler was given,
\* the arguments still hold the caller's own.
ConfirmNeeded(r) ==
  ~(/\ r.key # NoKey /\ Live(r.key, clock)
    /\ r.form = "raw" /\ idem[r.key].draft = r.target)

\* The handler up to its gateway call: the answer of an earlier send, a key of
\* another draft, or work for the EWS pool.
Handle(c, r, now) ==
  /\ idem' = Pruned(r.key, now)
  /\ LET known == r.key # NoKey /\ Live(r.key, now) IN
     \/ /\ known /\ idem[r.key].draft = r.target
        /\ Finish(c) /\ failures' = 0
     \/ /\ known /\ idem[r.key].draft # r.target
        /\ Finish(c) /\ UNCHANGED failures
     \/ /\ ~known
        /\ pc' = [pc EXCEPT ![c] = "work"]
        /\ req' = [req EXCEPT ![c] = r]
        /\ content' = [content EXCEPT ![c] = Gone]
        /\ UNCHANGED <<edited, failures>>

\* Seeded fault: a send exactly one window old no longer counts.
ExpiredAtWindow(t) == clock - t >= Window

\* The loop of _rate_guard drops these from the left.
Expired(t) == clock - t > Window

\* _rate_guard, then the handler.
Execute(c, r, now) ==
  \E k \in 1 .. (Len(sendTimes) + 1) :
    LET recent == SubSeq(sendTimes, k, Len(sendTimes)) IN
    /\ \A i \in 1 .. (k - 1) : Expired(sendTimes[i])
    /\ k <= Len(sendTimes) => ~Expired(sendTimes[k])
    /\ \/ /\ Len(recent) >= Cap
          /\ sendTimes' = recent
          /\ Finish(c)
          /\ UNCHANGED <<idem, failures, passed>>
       \/ /\ Len(recent) < Cap
          /\ sendTimes' = Append(recent, clock)
          /\ passed' = Append(passed, clock)
          /\ Handle(c, r, now)

-----------------------------------------------------------------------------
(***************************************************************************)
(* _confirm_gate, with the content s that the preview fetched.             *)
(***************************************************************************)
Minted(r, s) ==
  [target |-> r.target, form |-> r.form, content |-> s,
   exp |-> Second + TTL, secret |-> Secret]

\* Seeded fault: the content hash is left out of the comparison.
verify_any_content(r, s) ==
  /\ r.token # NoToken
  /\ r.token.secret = Secret
  /\ r.token.exp >= Second
  /\ r.token.target = r.target /\ r.token.form = r.form

\* Expiry is compared in whole seconds.
verify_token(r, s) ==
  /\ r.token # NoToken
  /\ r.token.secret = Secret
  /\ r.token.exp >= Second
  /\ r.token.target = r.target /\ r.token.form = r.form /\ r.token.content = s

\* Seeded fault: the prune drops what is still valid.
StillConsumedTooFew == {t \in consumed : t.exp * Ticks > clock + Ticks}

\* What the prune of consume_token leaves, compared in fractions of a second.
StillConsumed == {t \in consumed : t.exp * Ticks >= clock}

MintToken(c, r, s) ==
  /\ r.token = NoToken
  /\ tokens' = tokens \cup {Minted(r, s)}
  /\ Cardinality(tokens') <= MaxTokens
  /\ Finish(c)
  /\ UNCHANGED <<consumed, used, again, forgot, sendTimes, idem, failures, passed>>

RejectToken(c, r, s) ==
  /\ r.token # NoToken
  /\ ~verify_token(r, s) \/ r.token \in StillConsumed
  /\ consumed' = IF verify_token(r, s) THEN StillConsumed ELSE consumed
  /\ Finish(c)
  /\ UNCHANGED <<tokens, used, again, forgot, sendTimes, idem, failures, passed>>

SpendToken(c, r, s) ==
  /\ verify_token(r, s)
  /\ r.token \notin StillConsumed
  /\ consumed' = StillConsumed \cup {r.token}
  /\ used' = used \cup {r.token}
  /\ again' = IF r.token \in used THEN again \cup {[token |-> r.token, at |-> clock]}
                                  ELSE again
  /\ Execute(c, r, clock)
  /\ UNCHANGED <<tokens, forgot>>

Gate(c, r, s) == MintToken(c, r, s) \/ RejectToken(c, r, s) \/ SpendToken(c, r, s)

-----------------------------------------------------------------------------
(***************************************************************************)
(* One dispatch.                                                           *)
(***************************************************************************)
\* send_draft, up to the await of its preview hook.
Begin(c, r) ==
  /\ pc[c] = "idle" /\ CircuitClosed
  /\ r.target \in Drafts /\ ConfirmNeeded(r)
  /\ pc' = [pc EXCEPT ![c] = "preview"]
  /\ req' = [req EXCEPT ![c] = r]
  /\ idem' = Pruned(r.key, clock)
  /\ UNCHANGED <<clock, draft, boots, sendTimes, failures, openUntil, content, edited,
                 tokenVars, sent, passed>>

\* A known key and raw id: no gate.  The clock moves between the lookup of the
\* predicate and that of the handler.
Replay(c, r) ==
  /\ pc[c] = "idle" /\ CircuitClosed
  /\ r.target \in Drafts /\ ~ConfirmNeeded(r)
  /\ \E later \in {0, 1} : Execute(c, r, clock + later)
  /\ UNCHANGED <<clock, draft, boots, openUntil, tokenVars, sent>>

\* A tool without preview hook goes through the gate at once.
BeginAct(c, r) ==
  /\ pc[c] = "idle" /\ CircuitClosed
  /\ r.target \in Acts
  /\ Gate(c, r, r.target)
  /\ UNCHANGED <<clock, draft, boots, openUntil, sent>>

PreviewFetch(c) ==
  /\ pc[c] = "preview" /\ draft[req[c].target] # Gone
  /\ pc' = [pc EXCEPT ![c] = "gate"]
  /\ content' = [content EXCEPT ![c] = draft[req[c].target]]
  /\ UNCHANGED <<clock, draft, boots, sendTimes, idem, failures, openUntil, req, edited,
                 tokenVars, sent, passed>>

\* An answer other than an outage: the draft is no longer in Drafts, the item
\* does not exist, access is denied, the arguments are wrong.
Refused(c) ==
  /\ pc[c] \in {"preview", "work"}
  /\ Finish(c)
  /\ UNCHANGED <<clock, draft, boots, sendTimes, idem, failures, openUntil, tokenVars,
                 sent, passed>>

\* Exchange cannot be reached, in the preview or in the handler.
UpstreamFails(c) ==
  /\ pc[c] \in {"preview", "work"}
  /\ UpstreamFailure
  /\ Finish(c)
  /\ UNCHANGED <<clock, draft, boots, sendTimes, idem, tokenVars, sent, passed>>

GateStep(c) ==
  /\ pc[c] = "gate"
  /\ Gate(c, req[c], content[c])
  /\ UNCHANGED <<clock, draft, boots, openUntil, sent>>

\* The handler's work: SendItem sends the draft as it is and moves it out of
\* Drafts; another tool acts on its arguments.
Perform(c) ==
  LET t == req[c].target IN
  /\ pc[c] = "work"
  /\ t \in Drafts => draft[t] # Gone
  /\ draft' = [d \in Drafts |-> IF d = t THEN Gone ELSE draft[d]]
  /\ sent' = sent \cup {[target  |-> t,
                         content |-> IF t \in Drafts THEN draft[t] ELSE t,
                         token   |-> req[c].token,
                         edited  |-> edited[c]]}

WorkDone(c) ==
  /\ Perform(c)
  /\ pc' = [pc EXCEPT ![c] = "record"]
  /\ UNCHANGED <<clock, boots, sendTimes, idem, failures, openUntil, req, content, edited,
                 tokenVars, passed>>

\* Done, but the answer is lost.
WorkLost(c) ==
  /\ Perform(c)
  /\ UpstreamFailure
  /\ Finish(c)
  /\ UNCHANGED <<clock, boots, sendTimes, idem, tokenVars, passed>>

\* _idempotency_put: the oldest receipt makes room.
Put(k, receipt) ==
  LET stored == {j \in Keys : idem[j] # NoReceipt} IN
  IF Cardinality(stored) < IdemMax
    THEN idem' = [idem EXCEPT ![k] = receipt]
    ELSE \E oldest \in stored :
           /\ \A j \in stored : idem[oldest].ts <= idem[j].ts
           /\ idem' = [idem EXCEPT ![oldest] = NoReceipt, ![k] = receipt]

Record(c) ==
  /\ pc[c] = "record"
  /\ IF req[c].key = NoKey THEN UNCHANGED idem
       ELSE Put(req[c].key, [draft |-> req[c].target, ts |-> clock])
  /\ failures' = 0
  /\ Finish(c)
  /\ UNCHANGED <<clock, draft, boots, sendTimes, openUntil, tokenVars, sent, passed>>

-----------------------------------------------------------------------------
(***************************************************************************)
(* Everyone else.                                                          *)
(***************************************************************************)
\* update_draft, or the owner in Outlook.
EditDraft(d, s) ==
  /\ draft[d] \notin {Gone, s}
  /\ draft' = [draft EXCEPT ![d] = s]
  /\ edited' = [c \in Calls |->
       edited[c] \/ (pc[c] \in {"gate", "work"} /\ req[c].target = d)]
  /\ UNCHANGED <<clock, boots, sendTimes, idem, failures, openUntil, pc, req, content,
                 tokenVars, sent, passed>>

DiscardDraft(d) ==
  /\ draft[d] # Gone
  /\ draft' = [draft EXCEPT ![d] = Gone]
  /\ UNCHANGED <<clock, boots, sendTimes, idem, failures, openUntil, callVars,
                 tokenVars, sent, passed>>

Tick ==
  /\ clock < MaxTime
  /\ clock' = clock + 1
  /\ UNCHANGED <<draft, boots, sendTimes, idem, failures, openUntil, callVars,
                 tokenVars, sent, passed>>

\* ewsd restarts: everything in memory is lost, and the secret with it unless
\* it comes from the environment.
Restart ==
  /\ boots < MaxRestarts /\ boots' = boots + 1
  /\ forgot' = IF FixedSecret THEN forgot \cup used ELSE forgot
  /\ consumed' = {} /\ sendTimes' = <<>> /\ passed' = <<>>
  /\ idem' = [k \in Keys |-> NoReceipt]
  /\ failures' = 0 /\ openUntil' = 0
  /\ pc' = [c \in Calls |-> "idle"]
  /\ req' = [c \in Calls |-> NoRequest]
  /\ content' = [c \in Calls |-> Gone]
  /\ edited' = [c \in Calls |-> FALSE]
  /\ UNCHANGED <<clock, draft, tokens, used, again, sent>>

-----------------------------------------------------------------------------
Dispatch(c) ==
  \/ \E r \in RequestsWith(tokens \cup {NoToken}) :
       Begin(c, r) \/ Replay(c, r) \/ BeginAct(c, r)
  \/ PreviewFetch(c) \/ Refused(c) \/ UpstreamFails(c) \/ GateStep(c)
  \/ WorkDone(c) \/ WorkLost(c) \/ Record(c)

Next ==
  \/ \E c \in Calls : Dispatch(c)
  \/ \E d \in Drafts : DiscardDraft(d) \/ \E s \in Contents : EditDraft(d, s)
  \/ Tick \/ Restart

Spec == Init /\ [][Next]_vars

-----------------------------------------------------------------------------
(***************************************************************************)
(* Properties.                                                             *)
(***************************************************************************)

\* Nothing leaves the mailbox without a token the gate accepted for that very
\* target, and what leaves is the content the token was minted for, unless the
\* draft was edited after the second phase had fetched it.  Idempotent replays,
\* which skip the gate, send nothing.  (base.py:195-203, writes.py:708-752.)
SentIsConfirmed ==
  \A s \in sent :
    /\ s.token \in used
    /\ s.token.target = s.target
    /\ s.token.content = s.content \/ s.edited

\* A token is accepted twice only in the second it expires in, or after a
\* restart that kept the secret and lost the registry.  (confirm.py:41-61.)
ReuseOnlyAtExpiry ==
  \A a \in again :
    \/ a.token \in forgot
    \/ a.token.exp * Ticks < a.at /\ a.at < (a.token.exp + 1) * Ticks

\* At most Cap calls pass the rate guard in any window, both ends included,
\* while the process lives.  (base.py:162-175.)
RateHolds ==
  \A i \in 1 .. (Len(passed) - Cap) : passed[i + Cap] - passed[i] > Window

-----------------------------------------------------------------------------
(***************************************************************************)
(* What the documentation says and the code does not do.                   *)
(***************************************************************************)

\* DESIGN.md:140: "Tokens are single-use".
TokensAreSingleUse == again = {}

\* DESIGN.md:140-142: "idempotent replays (same `idempotency_key` + draft)
\* return the cached receipt without a fresh token": a send_draft whose key has
\* the receipt of that draft does not go to the gate.
ReplayNeedsNoToken ==
  [][\A c \in Calls :
       pc[c] = "idle" /\ pc'[c] = "preview" =>
         LET r == req'[c] IN
         ~(r.key # NoKey /\ Live(r.key, clock) /\ idem[r.key].draft = r.target)]_vars

=============================================================================
