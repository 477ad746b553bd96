------------------------------- MODULE Captcha -------------------------------
(***************************************************************************)
(* Captchas (server/web/captcha/captcha.go): the challenge of an id is     *)
(* kept in a store (external) that may drop it or fail; a verification     *)
(* takes the challenge, compares, and then drops whatever the id has.      *)
(***************************************************************************)
EXTENDS Integers

CONSTANTS Ids, Verifiers, MaxChallenges   \* MaxChallenges: a bound

VARIABLES store,    \* c.store: the challenge of an id, 0 for none
          made,     \* challenges made so far; each is different
          shown,    \* the image a client has of an id
          verify,   \* the calls of Verify
          spent     \* history: challenges whose Verify had them deleted

captchaVars == <<store, made, shown, verify, spent>>

Idle == [pc |-> "idle", id |-> CHOOSE i \in Ids : TRUE, chars |-> 0, answer |-> 0, ok |-> FALSE]

Init ==
  /\ store = [i \in Ids |-> 0] /\ made = 0 /\ shown = [i \in Ids |-> 0]
  /\ verify = [v \in Verifiers |-> Idle] /\ spent = {}

\* CreateCaptcha, and Handler with reload: a new challenge; Put may fail, and
\* then nothing is shown.
Put(i) ==
  /\ made < MaxChallenges
  /\ made' = made + 1
  /\ \/ store' = [store EXCEPT ![i] = made + 1]
     \/ UNCHANGED store
  /\ UNCHANGED <<verify, spent>>

CreateCaptcha(i) == store[i] = 0 /\ shown[i] = 0 /\ Put(i) /\ UNCHANGED shown

Reload(i) ==
  /\ Put(i)
  /\ shown' = IF store'[i] = made' THEN [shown EXCEPT ![i] = made'] ELSE shown

\* Handler without reload: the image of the challenge, or 404.
Handler(i) ==
  /\ store[i] # 0 /\ shown' = [shown EXCEPT ![i] = store[i]]
  /\ UNCHANGED <<store, made, verify, spent>>

\* The store drops what is older than Expiration.
Expire(i) ==
  /\ store[i] # 0 /\ store' = [store EXCEPT ![i] = 0]
  /\ UNCHANGED <<made, shown, verify, spent>>

\* Verify: an empty field or an unknown id fails at once.
Get(v) ==
  /\ verify[v].pc = "idle"
  /\ \E i \in Ids : \E a \in {0, shown[i]} :
       verify' = [verify EXCEPT ![v] =
         IF a = 0 \/ store[i] = 0 THEN [pc |-> "done", id |-> i, chars |-> 0, answer |-> a, ok |-> FALSE]
         ELSE [pc |-> "compare", id |-> i, chars |-> store[i], answer |-> a, ok |-> FALSE]]
  /\ UNCHANGED <<store, made, shown, spent>>

\* The answer as it is compared: digit by digit, a wrong one as good as any other.
Compare(v) ==
  /\ verify[v].pc = "compare"
  /\ \E right \in BOOLEAN :
       verify' = [verify EXCEPT ![v].pc = "delete",
                                ![v].ok = right /\ verify[v].answer = verify[v].chars]
  /\ UNCHANGED <<store, made, shown, spent>>

\* Mutant: a challenge is kept until it is answered.
DeleteAnswered(v) ==
  /\ verify[v].pc = "delete"
  /\ store' = IF verify[v].ok THEN [store EXCEPT ![verify[v].id] = 0] ELSE store
  /\ spent' = spent \cup {verify[v].chars}
  /\ verify' = [verify EXCEPT ![v].pc = "done"]
  /\ UNCHANGED <<made, shown>>

\* The deferred Delete, after a right answer and after a wrong one.  The store
\* may fail; the error is dropped and the challenge stays.
Delete(v) ==
  /\ verify[v].pc = "delete"
  /\ \/ /\ store' = [store EXCEPT ![verify[v].id] = 0]
        /\ spent' = spent \cup {verify[v].chars}
     \/ UNCHANGED <<store, spent>>
  /\ verify' = [verify EXCEPT ![v].pc = "done"]
  /\ UNCHANGED <<made, shown>>

Return(v) ==
  /\ verify[v].pc = "done" /\ verify' = [verify EXCEPT ![v] = Idle]
  /\ UNCHANGED <<store, made, shown, spent>>

Next ==
  \/ \E i \in Ids : CreateCaptcha(i) \/ Reload(i) \/ Handler(i) \/ Expire(i)
  \/ \E v \in Verifiers : Get(v) \/ Compare(v) \/ Delete(v) \/ Return(v)

Spec == Init /\ [][Next]_captchaVars

-----------------------------------------------------------------------------
(* Properties.                                                             *)

\* A challenge that a Verify has been through, right or wrong, and the store has
\* deleted for it is never there again, whatever other verifications, reloads
\* and new challenges of the id come in between: whoever did not ask before gets
\* no second try.  If every such Delete failed there is one, until it expires.
OneTry == \A i \in Ids : store[i] \notin spent

=============================================================================
