---------------------------- MODULE ChatGptCalls ----------------------------
(***************************************************************************)
(* Calls of the native ChatGPT provider (models/chatgpt-provider.ts) and   *)
(* the renewal of its tokens.  A runtime, and each child, has an instance  *)
(* of the provider; an instance renews once for all calls that wait.       *)
(***************************************************************************)
EXTENDS CredentialVault

CONSTANTS
  Chatgpt,      \* the provider whose credentials are tokens that expire
  Calls,        \* calls of complete()
  Instances,    \* instances of ChatGptModelProvider
  InstanceOf    \* the instance of a call

ASSUME CallsAssumption ==
  /\ Chatgpt \in Providers /\ Calls \subseteq Actors /\ Instances \subseteq Writers
  /\ InstanceOf \in [Calls -> Instances]
  /\ \A c \in Calls : ProcessOf[c] = ProcessOf[InstanceOf[c]]

VARIABLES
  call,      \* each call: where it is, its token, whether it was refused once
  refresh,   \* refreshPromise of each instance
  spent,     \* external: refresh tokens the server has replaced
  expired    \* tokens that are at most a minute from their end

callVars == <<call, refresh, spent, expired>>

NoRefresh == [stage |-> "none", from |-> 0, token |-> 0]

CallInit ==
  /\ call = [c \in Calls |-> [at |-> "idle", token |-> 0, retried |-> FALSE]]
  /\ refresh = [i \in Instances |-> NoRefresh]
  /\ spent = {} /\ expired = {}

Goes(c, place) == call' = [call EXCEPT ![c].at = place]

Waiting(i) == {c \in Calls : InstanceOf[c] = i /\ call[c].at = "refreshing"}

\* Every call that awaits the instance's promise gets its answer.
Release(i, place, token) ==
  call' = [c \in Calls |-> IF c \in Waiting(i) THEN [call[c] EXCEPT !.at = place, !.token = token]
                                               ELSE call[c]]

Begin(c) ==
  /\ TakesPart(c) /\ call[c].at = "idle" /\ Goes(c, "reading")
  /\ Works /\ UNCHANGED <<refresh, spent, expired, vaultVars>>

\* auth(): the entry is read before the promise of a renewal is looked at.
ReadAuth(c) ==
  /\ call[c].at = "reading"
  /\ \/ Works /\ call' = [call EXCEPT ![c].at = "read", ![c].token = vault[Chatgpt]]
     \/ Fails /\ Goes(c, "failed")
  /\ UNCHANGED <<refresh, spent, expired, vaultVars>>

\* A token that is good is used, unless the server has just refused it; else the
\* call joins the renewal under way or starts one with the entry it read.
Authorize(c) ==
  LET i == InstanceOf[c]
      token == call[c].token
  IN /\ call[c].at = "read" /\ Works
     /\ \/ token = 0 /\ Goes(c, "failed") /\ UNCHANGED refresh
        \/ /\ token # 0 /\ ~call[c].retried /\ token \notin expired
           /\ Goes(c, "sent") /\ UNCHANGED refresh
        \/ /\ token # 0 /\ (call[c].retried \/ token \in expired)
           /\ Goes(c, "refreshing")
           /\ refresh' = IF refresh[i].stage # "none" THEN refresh
                         ELSE [refresh EXCEPT ![i] = [stage |-> "asking", from |-> token, token |-> 0]]
     /\ UNCHANGED <<spent, expired, vaultVars>>

\* Faulty variant: the calls go on while the answer is being stored.
RenewUnstored(i) ==
  /\ refresh[i].stage = "asking" /\ refresh[i].from \notin spent
  /\ spent' \in {spent, spent \cup {refresh[i].from}}
  /\ issued' = issued + 1
  /\ refresh' = [refresh EXCEPT ![i].stage = "storing", ![i].token = issued + 1]
  /\ Enqueue(i, Chatgpt, issued + 1) /\ Release(i, "sent", issued + 1)
  /\ Works /\ UNCHANGED expired

\* External: the server renews a refresh token it has not replaced, and may
\* replace it.  The instance stores the answer before anyone uses it.
Renew(i) ==
  /\ refresh[i].stage = "asking" /\ refresh[i].from \notin spent
  /\ spent' \in {spent, spent \cup {refresh[i].from}}
  /\ issued' = issued + 1
  /\ refresh' = [refresh EXCEPT ![i].stage = "storing", ![i].token = issued + 1]
  /\ Enqueue(i, Chatgpt, issued + 1)
  /\ Works /\ UNCHANGED <<call, expired>>

\* The server refuses, or its answer is lost.
RenewalFails(i) ==
  /\ refresh[i].stage = "asking"
  /\ spent' \in {spent, spent \cup {refresh[i].from}}
  /\ refresh' = [refresh EXCEPT ![i] = NoRefresh]
  /\ Release(i, "failed", 0)
  /\ Works /\ UNCHANGED <<expired, vaultVars>>

\* set() returned or threw: the promise settles and is forgotten.
RenewalStored(i) ==
  /\ refresh[i].stage = "storing" /\ told[i] \in {"stored", "failed"}
  /\ \/ told[i] = "stored" /\ Release(i, "sent", refresh[i].token)
     \/ told[i] = "failed" /\ Release(i, "failed", 0)
  /\ refresh' = [refresh EXCEPT ![i] = NoRefresh]
  /\ told' = [told EXCEPT ![i] = "none"]
  /\ Works /\ UNCHANGED <<spent, expired, vault, issued, by, chain>>

\* The endpoint answers, or refuses the token, which is renewed once; an error, a
\* timeout or an abort ends the call.
Respond(c) ==
  /\ call[c].at = "sent"
  /\ \/ \E end \in {"answered", "failed"} : Goes(c, end)
     \/ ~call[c].retried /\ call' = [call EXCEPT ![c].at = "reading", ![c].retried = TRUE]
  /\ Works /\ UNCHANGED <<refresh, spent, expired, vaultVars>>

\* The clock: of all tokens only the ones the home began with come to their end.
Expire ==
  /\ scenario.vault[Chatgpt] # 0 /\ expired' = {scenario.vault[Chatgpt]} /\ expired' # expired
  /\ Works /\ UNCHANGED <<call, refresh, spent, vaultVars>>

CallStep ==
  \/ \E c \in Calls : Alive(c) /\ (ReadAuth(c) \/ Authorize(c) \/ Respond(c))
  \/ \E i \in Instances : Alive(i) /\ RenewalStored(i)

ServerStep == \E i \in Instances : Alive(i) /\ (Renew(i) \/ RenewalFails(i))

-----------------------------------------------------------------------------
CallTypeOK ==
  /\ \A c \in Calls : call[c].at \in
       {"idle", "reading", "read", "refreshing", "sent", "answered", "failed"}
  /\ \A i \in Instances : refresh[i].stage \in {"none", "asking", "storing"}

\* A token that was sent is in the vault, or a newer one is: the process may die
\* and loses nothing.  Only what others do to the entry is beyond its power.
SentIsStored ==
  \A c \in Calls : Alive(c) /\ call[c].at = "sent" /\ vault[Chatgpt] < call[c].token =>
    by[Chatgpt] = Lost \/ ProcessOf[by[Chatgpt]] # ProcessOf[c]

=============================================================================
