-------------------------- MODULE CredentialVault --------------------------
(***************************************************************************)
(* auth.json (models/auth-store.ts).  set() and remove() are chained per   *)
(* file inside a process; each reads the whole file, changes one entry and *)
(* renames a temporary file over it.  Nothing orders two processes.        *)
(***************************************************************************)
EXTENDS HomeProcesses, SequencesExt

CONSTANTS
  Providers,   \* provider ids
  Writers,     \* actors that change credentials
  Lost         \* stands for the writer of an entry that an old read brought back

Entries == [Providers -> Nat]

ASSUME WritersAssumption ==
  /\ IsFiniteSet(Providers)
  /\ Writers \subseteq Actors /\ Lost \notin Writers \cup {NoOne}
  /\ \A s \in Scenarios : s.vault \in Entries

VARIABLES
  vault,    \* what the file says of each provider; 0 when it has no entry
  issued,   \* the newest credential there is: keys and tokens are numbered
  by,       \* history: whose rename gave a provider its entry
  chain,    \* ProviderAuthStore.writeQueues: a process's writes, in order
  told      \* the promise each writer waits for

vaultVars == <<vault, issued, by, chain, told>>

Job(w, q, cred) ==
  [writer |-> w, provider |-> q, cred |-> cred, read |-> FALSE, seen |-> [x \in Providers |-> 0]]

VaultInit ==
  /\ vault = scenario.vault
  /\ issued = Cardinality(Providers)
  /\ by = [q \in Providers |-> NoOne]
  /\ chain = [p \in Processes |-> <<>>]
  /\ told = [w \in Writers |-> "none"]

\* set() and, with credential 0, remove(): enqueueWrite.
Enqueue(w, q, cred) ==
  /\ chain' = [chain EXCEPT ![ProcessOf[w]] = Append(@, Job(w, q, cred))]
  /\ told' = [told EXCEPT ![w] = "waiting"]
  /\ UNCHANGED <<vault, by>>

MayRunAny(p) == DOMAIN chain[p] \* Faulty variant: operations are not chained.

\* previous.catch(() => undefined).then(operation): one at a time, in order.
MayRun(p) == DOMAIN chain[p] \cap {1}

Settle(p, i, answer) ==
  /\ chain' = [chain EXCEPT ![p] = RemoveAt(@, i)]
  /\ told' = [told EXCEPT ![chain[p][i].writer] = answer]

\* { ...await this.all() }
ReadVault(p, i) ==
  /\ ~chain[p][i].read
  /\ chain' = [chain EXCEPT ![p][i].read = TRUE, ![p][i].seen = vault]
  /\ Works /\ UNCHANGED <<vault, issued, by, told>>

\* writeAll: the file becomes what was read with one entry changed, which may
\* bring back what another process replaced since.
ReplaceVault(p, i) ==
  LET job == chain[p][i]
      next == [job.seen EXCEPT ![job.provider] = job.cred]
  IN /\ job.read
     /\ vault' = next
     /\ by' = [q \in Providers |-> IF q = job.provider THEN job.writer
                                   ELSE IF next[q] # vault[q] THEN Lost ELSE by[q]]
     /\ Settle(p, i, "stored")
     /\ Works /\ UNCHANGED issued

\* Faulty variant: the failure is swallowed by the chain.
WriteFailsUnheard(p, i) ==
  /\ Fails /\ chain' = [chain EXCEPT ![p] = RemoveAt(@, i)]
  /\ UNCHANGED <<vault, issued, by, told>>

\* Reading or writing throws; the file is as it was, and the next write begins.
WriteFails(p, i) ==
  /\ Fails /\ Settle(p, i, "failed")
  /\ UNCHANGED <<vault, issued, by>>

VaultStep(p) ==
  /\ p \notin dead
  /\ \E i \in MayRun(p) : ReadVault(p, i) \/ ReplaceVault(p, i) \/ WriteFails(p, i)

-----------------------------------------------------------------------------
VaultTypeOK ==
  /\ vault \in Entries /\ issued \in Nat
  /\ by \in [Providers -> Writers \cup {NoOne, Lost}]
  /\ \A p \in Processes : \A i \in DOMAIN chain[p] :
       chain[p][i].writer \in Writers /\ chain[p][i].seen \in Entries
  /\ told \in [Writers -> {"none", "waiting", "stored", "failed"}]

\* A rename changes another entry than its own only by bringing back what it read
\* before another process wrote: the writes of one process keep each other.
WritesAreKept(q) ==
  vault'[q] # vault[q] =>
    \E p \in Processes :
      /\ chain'[p] # chain[p]
      /\ \/ \E i \in DOMAIN chain[p] : chain[p][i].provider = q /\ chain[p][i].cred = vault'[q]
         \/ by[q] = Lost \/ ProcessOf[by[q]] # p

=============================================================================
