-------------------------- MODULE ArchiveImport_proofs -------------------------
(***************************************************************************)
(* That a checkpoint never runs ahead of the rows, that a batch never      *)
(* counts what is not there and that a completed batch is the whole        *)
(* export: for any export, scopes and chunk size and any number of         *)
(* processes that are killed, failed and run again; and that with one      *)
(* process at a time the batch counts exactly what is there.               *)
(*                                                                         *)
(* What the batch says is not inductive: a process writes back what it has *)
(* read and counted on its own.  So the same is said of the dictionary of  *)
(* scopes each process keeps, and of its position in the export, where the *)
(* lines of its chunk may still be missing.  The first half is about the   *)
(* rows (Invariants), the second about the counts (Counted), the last      *)
(* about the counts of a process that runs alone (Exact).                  *)
(***************************************************************************)
EXTENDS ArchiveImport, FiniteSetTheorems, TLAPS

\* The lines of a scope up to last are in the archive, but for those of chunk.
Covers(scope, last, chunk) ==
    \A n \in DOMAIN lines :
        (n <= last /\ Selected(scope, n)) => (IdentityOf(n) = "imported" \/ n \in chunk)

ScopesCovered(scopes) ==
    \A s \in Scopes : scopes[s] # None => Covers(s, scopes[s].last, {})

Locals == [stage : Stages, scope : Scopes \cup {None}, scopes : [Scopes -> Checkpoint \cup {None}],
           last : Nat, selected : Nat, unledgered : Nat, chunk : SUBSET (DOMAIN lines),
           counts : [imported : Nat, rejected : Nat]]
Reading == {"opened", "reading", "written", "closing"}

Types ==
    /\ lines \in Files
    /\ identities \in [Ids -> IdentityStates]
    /\ batch = [status |-> batch.status, imported |-> batch.imported,
                rejected |-> batch.rejected, scopes |-> batch.scopes]
    /\ batch.scopes \in [Scopes -> Checkpoint \cup {None}]
    /\ importers \in [Importers -> Locals]

\* A process that reads has a scope, and knows of what it has passed.
Position(local) ==
    /\ local.stage \in Reading => /\ local.scope \in Scopes
                                  /\ Covers(local.scope, local.last, local.chunk)
    /\ local.stage \in Reading \ {"reading"} => local.chunk = {}

Positions == \A p \in Importers : Position(importers[p])
LocalScopes == \A p \in Importers : ScopesCovered(importers[p].scopes)

Invariants == Types /\ ScopesCovered(batch.scopes) /\ LocalScopes /\ Positions

-------------------------------------------------------------------------------

\* Lines are numbered, and what is selected has a key.
LEMMA LineFacts ==
    ASSUME lines \in Files, NEW n \in DOMAIN lines
    PROVE  /\ n \in Nat /\ n > 0
           /\ lines[n] \in Line
           /\ \A s : Selected(s, n) => lines[n].id \in Ids
<1>1. lines \in [1..Cardinality(DOMAIN lines) -> Line] /\ Exported(lines)
  BY ArchiveAssumption DEF Exported
<1>2. n \in 1..Cardinality(DOMAIN lines)
  BY <1>1
<1>3. n \in Nat /\ n > 0 /\ lines[n] \in Line
  BY <1>1, <1>2
<1>4. lines[n].kind = "good" => lines[n].id # None
  BY <1>1 DEF Exported
<1> QED
  BY <1>3, <1>4 DEF Line, Selected

\* No line leaves the archive, whatever a step does to the rows.
Keeps == \A id \in Ids : identities[id] = "imported" => identities'[id] = "imported"

\* What is covered stays covered.
LEMMA CoversStays ==
    ASSUME Types, lines' = lines, Keeps, NEW s, NEW last, NEW chunk, Covers(s, last, chunk)
    PROVE  Covers(s, last, chunk)'
<1> SUFFICES ASSUME NEW n \in DOMAIN lines, n <= last, Selected(s, n), n \notin chunk
             PROVE  identities'[lines[n].id] = "imported"
  BY DEF Covers, Selected, Includes, IdentityOf
<1>1. identities[lines[n].id] = "imported"
  BY DEF Covers, IdentityOf
<1> QED
  BY <1>1, LineFacts DEF Types, Keeps

LEMMA ScopesStay ==
    ASSUME Types, lines' = lines, Keeps, NEW scopes, ScopesCovered(scopes)
    PROVE  \A s \in Scopes : scopes[s] # None => Covers(s, scopes[s].last, {})'
<1> SUFFICES ASSUME NEW s \in Scopes, scopes[s] # None
             PROVE  Covers(s, scopes[s].last, {})'
  OBVIOUS
<1>1. Covers(s, scopes[s].last, {})
  BY DEF ScopesCovered
<1> QED
  BY <1>1, CoversStays

\* Of a step of one process it is enough to look at that process and the batch.
LEMMA OneProcess ==
    ASSUME Invariants, lines' = lines, Keeps, identities' \in [Ids -> IdentityStates],
           NEW p \in Importers, NEW local \in Locals, Becomes(p, local),
           NEW scopes \in [Scopes -> Checkpoint \cup {None}],
           batch' = [status |-> batch'.status, imported |-> batch'.imported,
                     rejected |-> batch'.rejected, scopes |-> scopes],
           \A s \in Scopes : scopes[s] # None => Covers(s, scopes[s].last, {})',
           \A s \in Scopes : local.scopes[s] # None => Covers(s, local.scopes[s].last, {})',
           local.stage \in Reading => /\ local.scope \in Scopes
                                      /\ Covers(local.scope, local.last, local.chunk)',
           local.stage \in Reading \ {"reading"} => local.chunk = {}
    PROVE  Invariants'
<1>1. batch'.scopes = scopes
  OBVIOUS
<1>2. importers' = [importers EXCEPT ![p] = local]
  BY DEF Becomes
<1>3. importers \in [Importers -> Locals]
  BY DEF Invariants, Types
<1>4. importers'[p] = local /\ \A q \in Importers \ {p} : importers'[q] = importers[q]
  BY <1>2, <1>3
<1>5. Types'
  BY <1>1, <1>2, <1>3 DEF Invariants, Types, Locals
<1>6. ScopesCovered(batch.scopes)'
  BY <1>1 DEF ScopesCovered
<1>7. LocalScopes'
  <2> SUFFICES ASSUME NEW q \in Importers
               PROVE  ScopesCovered(importers[q].scopes)'
    BY DEF LocalScopes
  <2>1. CASE q = p
    BY <2>1, <1>4 DEF ScopesCovered
  <2>2. CASE q # p
    <3>1. PICK old : old = importers[q].scopes
      OBVIOUS
    <3>2. ScopesCovered(old) /\ Types
      BY <3>1 DEF Invariants, LocalScopes
    <3>3. \A s \in Scopes : old[s] # None => Covers(s, old[s].last, {})'
      BY <3>2, ScopesStay
    <3>4. importers'[q].scopes = old
      BY <2>2, <1>4, <3>1
    <3> QED
      BY <3>3, <3>4 DEF ScopesCovered
  <2> QED
    BY <2>1, <2>2
<1>8. Positions'
  <2> SUFFICES ASSUME NEW q \in Importers
               PROVE  Position(importers[q])'
    BY DEF Positions
  <2>1. CASE q = p
    BY <2>1, <1>4 DEF Position
  <2>2. CASE q # p
    <3>1. PICK old : old = importers[q]
      OBVIOUS
    <3>2. Position(old) /\ Types
      BY <3>1 DEF Invariants, Positions
    <3>3. old.stage \in Reading => Covers(old.scope, old.last, old.chunk)'
      <4> SUFFICES ASSUME old.stage \in Reading
                   PROVE  Covers(old.scope, old.last, old.chunk)'
        OBVIOUS
      <4>1. Covers(old.scope, old.last, old.chunk)
        BY <3>2 DEF Position
      <4> QED
        BY <3>2, <4>1, CoversStays
    <3>4. importers'[q] = old
      BY <2>2, <1>4, <3>1
    <3> QED
      BY <3>2, <3>3, <3>4 DEF Position
  <2> QED
    BY <2>1, <2>2
<1> QED
  BY <1>5, <1>6, <1>7, <1>8 DEF Invariants

\* The same where only the process moves.
LEMMA OnlyProcess ==
    ASSUME Invariants, UNCHANGED <<lines, identities, batch>>,
           NEW p \in Importers, NEW local \in Locals, Becomes(p, local),
           ScopesCovered(local.scopes), Position(local)
    PROVE  Invariants'
<1>1. PICK scopes \in [Scopes -> Checkpoint \cup {None}] : scopes = batch.scopes
  BY DEF Invariants, Types
<1>2. Types /\ Keeps
  BY DEF Invariants, Keeps
<1>3. ScopesCovered(scopes)
  BY <1>1 DEF Invariants
<1>4. \A s \in Scopes : scopes[s] # None => Covers(s, scopes[s].last, {})'
  BY <1>2, <1>3, ScopesStay
<1>5. PICK known : known = local.scopes
  OBVIOUS
<1>6. \A s \in Scopes : known[s] # None => Covers(s, known[s].last, {})'
  BY <1>2, <1>5, ScopesStay
<1>7. local.stage \in Reading => /\ local.scope \in Scopes
                                 /\ Covers(local.scope, local.last, local.chunk)'
  <2> SUFFICES ASSUME local.stage \in Reading
               PROVE  /\ local.scope \in Scopes
                      /\ Covers(local.scope, local.last, local.chunk)'
    OBVIOUS
  <2>1. local.scope \in Scopes /\ Covers(local.scope, local.last, local.chunk)
    BY DEF Position
  <2> QED
    BY <1>2, <2>1, CoversStays
<1>8. local.stage \in Reading \ {"reading"} => local.chunk = {}
  BY DEF Position
<1>9. batch' = [status |-> batch'.status, imported |-> batch'.imported,
                rejected |-> batch'.rejected, scopes |-> scopes]
  BY <1>1 DEF Invariants, Types
<1>10. identities' \in [Ids -> IdentityStates]
  BY DEF Invariants, Types
<1>11. \A s \in Scopes : local.scopes[s] # None => Covers(s, local.scopes[s].last, {})'
  BY <1>5, <1>6
<1> QED
  BY <1>2, <1>4, <1>7, <1>8, <1>9, <1>10, <1>11, OneProcess

LEMMA LocalFacts ==
    ASSUME Invariants, NEW p \in Importers
    PROVE  /\ importers[p] \in Locals
           /\ Position(importers[p])
           /\ ScopesCovered(importers[p].scopes)
BY DEF Invariants, Types, Positions, LocalScopes

\* A process that has stopped, or is in none of the reading stages, keeps nothing.
LEMMA OffFacts ==
    ASSUME NEW stage \in Stages
    PROVE  /\ [Off EXCEPT !.stage = stage] \in Locals
           /\ ScopesCovered([Off EXCEPT !.stage = stage].scopes)
           /\ stage \notin Reading => Position([Off EXCEPT !.stage = stage])
<1>1. [Off EXCEPT !.stage = stage] =
        [stage |-> stage, scope |-> None, scopes |-> NoScopes, last |-> 0,
         selected |-> 0, unledgered |-> 0, chunk |-> {}, counts |-> NoCounts]
  BY DEF Off
<1>2. NoScopes \in [Scopes -> Checkpoint \cup {None}]
  BY DEF NoScopes
<1> QED
  BY <1>1, <1>2 DEF Locals, NoCounts, ScopesCovered, NoScopes, Position

LEMMA StopsSafe ==
    ASSUME Invariants, NEW p \in Importers, UNCHANGED <<lines, identities, batch>>,
           NEW stage \in Stages \ Reading, Becomes(p, [Off EXCEPT !.stage = stage])
    PROVE  Invariants'
<1>1. PICK local : local = [Off EXCEPT !.stage = stage]
  OBVIOUS
<1>2. local \in Locals /\ ScopesCovered(local.scopes) /\ Position(local)
  BY <1>1, OffFacts
<1> QED
  BY <1>1, <1>2, OnlyProcess

-------------------------------------------------------------------------------
(* The steps.                                                              *)

LEMMA OpenSafe ==
    ASSUME Invariants, NEW p \in Importers, NEW scope \in Scopes, Open(p, scope)
    PROVE  Invariants'
<1>1. PICK scopes \in [Scopes -> Checkpoint \cup {None}] : scopes = batch.scopes
  BY DEF Invariants, Types
<1>2. Types /\ Keeps /\ identities' \in [Ids -> IdentityStates] /\ lines' = lines
  BY DEF Invariants, Keeps, Open, Types
<1>3. ScopesCovered(scopes)
  BY <1>1 DEF Invariants
<1>4. \A s \in Scopes : scopes[s] # None => Covers(s, scopes[s].last, {})'
  BY <1>2, <1>3, ScopesStay
<1>5. batch' = [status |-> batch'.status, imported |-> batch'.imported,
                rejected |-> batch'.rejected, scopes |-> scopes]
  BY <1>1 DEF Invariants, Types, Open
<1>6. Prior(scope) \in Checkpoint
  <2>1. CASE batch.scopes[scope] = None
    BY <2>1 DEF Prior, Fresh, Checkpoint
  <2>2. CASE batch.scopes[scope] # None
    BY <2>2, <1>1 DEF Prior
  <2> QED
    BY <2>1, <2>2
<1>7. CASE Prior(scope).status = "completed"
  <2>1. PICK local : local = importers[p]
    OBVIOUS
  <2>2. local \in Locals /\ Position(local) /\ ScopesCovered(local.scopes)
    BY <2>1, LocalFacts
  <2>3. Becomes(p, local)
    BY <1>7, <2>1 DEF Open, Becomes, Invariants, Types
  <2>4. PICK known : known = local.scopes
    OBVIOUS
  <2>5. \A s \in Scopes : known[s] # None => Covers(s, known[s].last, {})'
    BY <1>2, <2>2, <2>4, ScopesStay
  <2>6. \A s \in Scopes : local.scopes[s] # None => Covers(s, local.scopes[s].last, {})'
    BY <2>4, <2>5
  <2>7. local.stage \notin Reading
    BY <2>1 DEF Open, At, Reading
  <2> QED
    BY <1>2, <1>4, <1>5, <2>2, <2>3, <2>6, <2>7, OneProcess
<1>8. CASE Prior(scope).status # "completed"
  <2>1. PICK local : local = Resumed(scope, Prior(scope))
    OBVIOUS
  <2>2. local = [stage |-> "opened", scope |-> scope, scopes |-> scopes,
                 last |-> Prior(scope).last, selected |-> Prior(scope).selected,
                 unledgered |-> Prior(scope).unledgered, chunk |-> {}, counts |-> NoCounts]
    BY <1>1, <2>1 DEF Resumed, Off
  <2>3. local \in Locals
    BY <1>6, <2>2 DEF Locals, NoCounts, Stages, Checkpoint
  <2>4. PICK last : last = Prior(scope).last
    OBVIOUS
  <2>5. Covers(scope, last, {})
    <3>1. CASE scopes[scope] = None
      <4>1. last = 0
        BY <3>1, <1>1, <2>4 DEF Prior, Fresh
      <4>2. \A n \in DOMAIN lines : ~(n <= last)
        BY <4>1, <1>2, LineFacts DEF Types
      <4> QED
        BY <4>2 DEF Covers
    <3>2. CASE scopes[scope] # None
      BY <3>2, <1>1, <1>3, <2>4 DEF ScopesCovered, Prior
    <3> QED
      BY <3>1, <3>2
  <2>6. Covers(scope, last, {})'
    BY <1>2, <2>5, CoversStays
  <2>7. local.scope = scope /\ local.last = last /\ local.chunk = {} /\ local.scopes = scopes
    BY <2>2, <2>4
  <2>8. Becomes(p, local)
    BY <1>8, <2>1 DEF Open
  <2>9. Covers(local.scope, local.last, local.chunk)'
    BY <2>6, <2>7
  <2> QED
    BY <1>2, <1>4, <1>5, <2>3, <2>7, <2>8, <2>9, OneProcess
<1> QED
  BY <1>7, <1>8

LEMMA MarkRunningSafe ==
    ASSUME Invariants, NEW p \in Importers, MarkRunning(p)
    PROVE  Invariants'
<1>1. PICK scopes \in [Scopes -> Checkpoint \cup {None}] : scopes = batch.scopes
  BY DEF Invariants, Types
<1>2. Types /\ Keeps /\ identities' \in [Ids -> IdentityStates] /\ lines' = lines
  BY DEF Invariants, Keeps, MarkRunning, Types
<1>3. \A s \in Scopes : scopes[s] # None => Covers(s, scopes[s].last, {})'
  <2>1. ScopesCovered(scopes)
    BY <1>1 DEF Invariants
  <2> QED
    BY <1>2, <2>1, ScopesStay
<1>4. batch' = [status |-> batch'.status, imported |-> batch'.imported,
                rejected |-> batch'.rejected, scopes |-> scopes]
  BY <1>1 DEF Invariants, Types, MarkRunning
<1>5. PICK old \in Locals : old = importers[p] /\ Position(old) /\ ScopesCovered(old.scopes)
  BY LocalFacts
<1>6. PICK local : local = [old EXCEPT !.stage = "reading"]
  OBVIOUS
<1>7. local \in Locals /\ local.scope = old.scope /\ local.last = old.last
         /\ local.chunk = old.chunk /\ local.scopes = old.scopes /\ local.stage = "reading"
  BY <1>6 DEF Locals, Stages
<1>8. Covers(old.scope, old.last, old.chunk) /\ old.scope \in Scopes
  BY <1>5 DEF Position, MarkRunning, At, Reading
<1>9. Covers(old.scope, old.last, old.chunk)'
  BY <1>2, <1>8, CoversStays
<1>10. Covers(local.scope, local.last, local.chunk)'
  BY <1>7, <1>9
<1>11. PICK known : known = local.scopes
  OBVIOUS
<1>12. \A s \in Scopes : known[s] # None => Covers(s, known[s].last, {})'
  BY <1>2, <1>5, <1>7, <1>11, ScopesStay
<1>13. \A s \in Scopes : local.scopes[s] # None => Covers(s, local.scopes[s].last, {})'
  BY <1>11, <1>12
<1>14. Becomes(p, local)
  BY <1>5, <1>6 DEF MarkRunning, Goes, Local
<1> QED
  BY <1>2, <1>3, <1>4, <1>7, <1>8, <1>10, <1>13, <1>14, OneProcess

LEMMA SkipsSafe ==
    ASSUME Invariants, NEW p \in Importers, NEW n \in DOMAIN lines, Skips(p, n)
    PROVE  Invariants'
<1>1. PICK old \in Locals : old = importers[p] /\ Position(old) /\ ScopesCovered(old.scopes)
  BY LocalFacts
<1>2. PICK local : local = [old EXCEPT !.last = n]
  OBVIOUS
<1>3. old.stage = "reading" /\ n = old.last + 1 /\ ~Selected(old.scope, n)
  BY <1>1 DEF Skips, Reads, At, Local, Selected
<1>4. n \in Nat /\ \A m \in DOMAIN lines : m \in Nat
  BY LineFacts DEF Invariants, Types
<1>5. local \in Locals /\ local.stage = "reading" /\ local.scope = old.scope /\ local.last = n
         /\ local.chunk = old.chunk /\ local.scopes = old.scopes
  BY <1>2, <1>3, <1>4 DEF Locals
<1>6. Covers(old.scope, n, old.chunk) /\ old.scope \in Scopes
  <2>1. Covers(old.scope, old.last, old.chunk) /\ old.scope \in Scopes /\ old.last \in Nat
    BY <1>1, <1>3 DEF Position, Reading, Locals
  <2>2. ASSUME NEW m \in DOMAIN lines, m <= n, Selected(old.scope, m)
        PROVE  m <= old.last
    <3>1. m # n
      BY <1>3, <2>2
    <3> QED
      BY <3>1, <1>3, <1>4, <2>1, <2>2
  <2> QED
    BY <2>1, <2>2 DEF Covers
<1>7. Position(local)
  BY <1>5, <1>6 DEF Position, Reading
<1>8. Becomes(p, local) /\ UNCHANGED <<lines, identities, batch>>
  BY <1>1, <1>2 DEF Skips, Local
<1> QED
  BY <1>1, <1>5, <1>7, <1>8, OnlyProcess

LEMMA TakesSafe ==
    ASSUME Invariants, NEW p \in Importers, NEW n \in DOMAIN lines, Takes(p, n)
    PROVE  Invariants'
<1>1. PICK old \in Locals : old = importers[p] /\ Position(old) /\ ScopesCovered(old.scopes)
  BY LocalFacts
<1>2. PICK local : local = [old EXCEPT !.last = n, !.selected = old.selected + 1,
                                       !.chunk = old.chunk \cup {n}]
  OBVIOUS
<1>3. old.stage = "reading" /\ n = old.last + 1
  BY <1>1 DEF Takes, Reads, At, Local
<1>4. n \in Nat /\ \A m \in DOMAIN lines : m \in Nat
  BY LineFacts DEF Invariants, Types
<1>5. old.selected + 1 \in Nat /\ old.chunk \cup {n} \in SUBSET DOMAIN lines
  BY DEF Locals
<1>6. local = [stage |-> "reading", scope |-> old.scope, scopes |-> old.scopes, last |-> n,
               selected |-> old.selected + 1, unledgered |-> old.unledgered,
               chunk |-> old.chunk \cup {n}, counts |-> old.counts]
  BY <1>2, <1>3 DEF Locals
<1>7. local \in Locals
  BY <1>4, <1>5, <1>6 DEF Locals, Stages
<1>8. Covers(old.scope, n, old.chunk \cup {n}) /\ old.scope \in Scopes
  <2>1. Covers(old.scope, old.last, old.chunk) /\ old.scope \in Scopes /\ old.last \in Nat
    BY <1>1, <1>3 DEF Position, Reading, Locals
  <2>2. ASSUME NEW m \in DOMAIN lines, m <= n
        PROVE  m <= old.last \/ m = n
    BY <1>3, <1>4, <2>1, <2>2
  <2> QED
    BY <2>1, <2>2 DEF Covers
<1>9. Position(local)
  BY <1>6, <1>8 DEF Position, Reading
<1>10. Becomes(p, local) /\ UNCHANGED <<lines, identities, batch>>
  BY <1>1, <1>2 DEF Takes, Local
<1>11. ScopesCovered(local.scopes)
  BY <1>1, <1>6
<1> QED
  BY <1>7, <1>9, <1>10, <1>11, OnlyProcess

LEMMA RefusesSafe ==
    ASSUME Invariants, NEW p \in Importers, NEW n \in DOMAIN lines, Refuses(p, n)
    PROVE  Invariants'
<1>1. PICK old \in Locals : old = importers[p] /\ Position(old) /\ ScopesCovered(old.scopes)
  BY LocalFacts
<1>2. PICK count : count = IF lines[n].id = None THEN old.unledgered + 1 ELSE old.unledgered
  OBVIOUS
<1>3. count \in Nat
  BY <1>2 DEF Locals
<1>4. PICK local : local = [old EXCEPT !.last = n, !.unledgered = count]
  OBVIOUS
<1>5. old.stage = "reading" /\ n = old.last + 1 /\ ~Selected(old.scope, n)
  BY <1>1 DEF Refuses, Reads, At, Local, Selected
<1>6. n \in Nat /\ \A m \in DOMAIN lines : m \in Nat
  BY LineFacts DEF Invariants, Types
<1>7. local \in Locals /\ local.stage = "reading" /\ local.scope = old.scope /\ local.last = n
         /\ local.chunk = old.chunk /\ local.scopes = old.scopes
  BY <1>3, <1>4, <1>5, <1>6 DEF Locals
<1>8. Covers(old.scope, n, old.chunk) /\ old.scope \in Scopes
  <2>1. Covers(old.scope, old.last, old.chunk) /\ old.scope \in Scopes /\ old.last \in Nat
    BY <1>1, <1>5 DEF Position, Reading, Locals
  <2>2. ASSUME NEW m \in DOMAIN lines, m <= n, Selected(old.scope, m)
        PROVE  m <= old.last
    <3>1. m # n
      BY <1>5, <2>2
    <3> QED
      BY <3>1, <1>5, <1>6, <2>1, <2>2
  <2> QED
    BY <2>1, <2>2 DEF Covers
<1>9. Types /\ lines' = lines
  BY DEF Invariants, Refuses
<1>10. Keeps /\ identities' \in [Ids -> IdentityStates]
  <2>1. CASE lines[n].id # None /\ IdentityOf(n) = "none"
    <3>1. identities' = [identities EXCEPT ![lines[n].id] = "rejected"]
      BY <2>1 DEF Refuses
    <3> QED
      BY <2>1, <3>1, <1>9 DEF Types, Keeps, IdentityOf, IdentityStates
  <2>2. CASE ~(lines[n].id # None /\ IdentityOf(n) = "none")
    <3>1. identities' = identities
      BY <2>2 DEF Refuses
    <3> QED
      BY <3>1, <1>9 DEF Types, Keeps
  <2> QED
    BY <2>1, <2>2
<1>11. PICK scopes \in [Scopes -> Checkpoint \cup {None}] : scopes = batch.scopes
  BY <1>9 DEF Types
<1>12. batch' = [status |-> batch'.status, imported |-> batch'.imported,
                 rejected |-> batch'.rejected, scopes |-> scopes]
  <2>1. batch = [status |-> batch.status, imported |-> batch.imported,
                 rejected |-> batch.rejected, scopes |-> scopes]
    BY <1>9, <1>11 DEF Types
  <2>2. batch' = batch \/ batch' = [batch EXCEPT !.rejected = @ + 1]
    BY DEF Refuses
  <2> QED
    BY <2>1, <2>2
<1>13. \A s \in Scopes : scopes[s] # None => Covers(s, scopes[s].last, {})'
  <2>1. ScopesCovered(scopes)
    BY <1>11 DEF Invariants
  <2> QED
    BY <1>9, <1>10, <2>1, ScopesStay
<1>14. PICK known : known = local.scopes
  OBVIOUS
<1>15. \A s \in Scopes : known[s] # None => Covers(s, known[s].last, {})'
  BY <1>1, <1>7, <1>9, <1>10, <1>14, ScopesStay
<1>16. \A s \in Scopes : local.scopes[s] # None => Covers(s, local.scopes[s].last, {})'
  BY <1>14, <1>15
<1>17. Covers(old.scope, n, old.chunk)'
  BY <1>8, <1>9, <1>10, CoversStays
<1>18. Covers(local.scope, local.last, local.chunk)'
  BY <1>7, <1>17
<1>19. Becomes(p, local)
  BY <1>1, <1>2, <1>4 DEF Refuses, Local
<1> QED
  BY <1>7, <1>8, <1>9, <1>10, <1>12, <1>13, <1>16, <1>18, <1>19, OneProcess

LEMMA FlushSafe ==
    ASSUME Invariants, NEW p \in Importers, Flush(p)
    PROVE  Invariants'
<1>1. PICK old \in Locals : old = importers[p] /\ Position(old) /\ ScopesCovered(old.scopes)
  BY LocalFacts
<1>2. PICK stage \in {"written", "closing"} :
        stage = IF ChunkFull(p) THEN "written" ELSE "closing"
  OBVIOUS
<1>3. PICK local : local = [old EXCEPT !.chunk = {}, !.stage = stage]
  OBVIOUS
<1>4. local \in Locals /\ local.stage = stage /\ local.scope = old.scope /\ local.last = old.last
         /\ local.chunk = {} /\ local.scopes = old.scopes
  BY <1>3 DEF Locals, Stages
<1>5. Types /\ lines' = lines
  BY DEF Invariants, Flush
<1>6. identities' = [id \in Ids |-> IF \E n \in old.chunk : lines[n].id = id
                                    THEN "imported" ELSE identities[id]]
  BY <1>1 DEF Flush, Writes, Local
<1>7. Keeps /\ identities' \in [Ids -> IdentityStates]
  BY <1>5, <1>6 DEF Types, Keeps, IdentityStates
<1>8. PICK scopes \in [Scopes -> Checkpoint \cup {None}] : scopes = batch.scopes
  BY <1>5 DEF Types
<1>9. batch' = [status |-> batch'.status, imported |-> batch'.imported,
                rejected |-> batch'.rejected, scopes |-> scopes]
  <2>1. batch = [status |-> batch.status, imported |-> batch.imported,
                 rejected |-> batch.rejected, scopes |-> scopes]
    BY <1>5, <1>8 DEF Types
  <2>2. PICK new : batch' = [batch EXCEPT !.imported = new]
    BY DEF Flush, Writes
  <2> QED
    BY <2>1, <2>2
<1>10. \A s \in Scopes : scopes[s] # None => Covers(s, scopes[s].last, {})'
  <2>1. ScopesCovered(scopes)
    BY <1>8 DEF Invariants
  <2> QED
    BY <1>5, <1>7, <2>1, ScopesStay
<1>11. PICK known : known = local.scopes
  OBVIOUS
<1>12. \A s \in Scopes : known[s] # None => Covers(s, known[s].last, {})'
  BY <1>1, <1>4, <1>5, <1>7, <1>11, ScopesStay
<1>13. \A s \in Scopes : local.scopes[s] # None => Covers(s, local.scopes[s].last, {})'
  BY <1>11, <1>12
<1>14. Covers(old.scope, old.last, old.chunk) /\ old.scope \in Scopes
  BY <1>1 DEF Position, Flush, At, Reading
<1>15. Covers(old.scope, old.last, {})'
  <2>1. Covers(old.scope, old.last, old.chunk)'
    BY <1>5, <1>7, <1>14, CoversStays
  <2>2. ASSUME NEW n \in DOMAIN lines, n \in old.chunk, Selected(old.scope, n)
        PROVE  identities'[lines[n].id] = "imported"
    BY <1>5, <1>6, <2>2, LineFacts DEF Types
  <2> QED
    BY <1>5, <2>1, <2>2 DEF Covers, Selected, Includes, IdentityOf
<1>16. Covers(local.scope, local.last, local.chunk)'
  BY <1>4, <1>15
<1>17. Becomes(p, local)
  BY <1>1, <1>2, <1>3 DEF Flush, Local
<1> QED
  BY <1>4, <1>5, <1>7, <1>9, <1>10, <1>13, <1>14, <1>16, <1>17, OneProcess

\* A step that writes the batch and no row.
LEMMA BatchAndProcess ==
    ASSUME Invariants, UNCHANGED <<lines, identities>>,
           NEW p \in Importers, NEW local \in Locals, Becomes(p, local),
           ScopesCovered(local.scopes), Position(local),
           NEW scopes \in [Scopes -> Checkpoint \cup {None}], ScopesCovered(scopes),
           batch' = [status |-> batch'.status, imported |-> batch'.imported,
                     rejected |-> batch'.rejected, scopes |-> scopes]
    PROVE  Invariants'
<1>1. Types /\ Keeps /\ identities' \in [Ids -> IdentityStates] /\ lines' = lines
  BY DEF Invariants, Keeps, Types
<1>2. \A s \in Scopes : scopes[s] # None => Covers(s, scopes[s].last, {})'
  BY <1>1, ScopesStay
<1>3. PICK known : known = local.scopes
  OBVIOUS
<1>4. \A s \in Scopes : known[s] # None => Covers(s, known[s].last, {})'
  BY <1>1, <1>3, ScopesStay
<1>5. \A s \in Scopes : local.scopes[s] # None => Covers(s, local.scopes[s].last, {})'
  BY <1>3, <1>4
<1>6. local.stage \in Reading => /\ local.scope \in Scopes
                                 /\ Covers(local.scope, local.last, local.chunk)'
  <2> SUFFICES ASSUME local.stage \in Reading
               PROVE  /\ local.scope \in Scopes
                      /\ Covers(local.scope, local.last, local.chunk)'
    OBVIOUS
  <2>1. local.scope \in Scopes /\ Covers(local.scope, local.last, local.chunk)
    BY DEF Position
  <2> QED
    BY <1>1, <2>1, CoversStays
<1>7. local.stage \in Reading \ {"reading"} => local.chunk = {}
  BY DEF Position
<1> QED
  BY <1>1, <1>2, <1>5, <1>6, <1>7, OneProcess

\* What a process in "written" or "closing" would save is covered.
LEMMA ProgressCovered ==
    ASSUME Invariants, NEW p \in Importers, importers[p].stage \in {"written", "closing"},
           NEW status \in {"running", "completed"}
    PROVE  /\ Updated(p, status) \in [Scopes -> Checkpoint \cup {None}]
           /\ ScopesCovered(Updated(p, status))
<1>1. PICK old \in Locals : old = importers[p] /\ Position(old) /\ ScopesCovered(old.scopes)
  BY LocalFacts
<1>2. PICK progress : progress = [status |-> status, last |-> old.last,
                                  selected |-> old.selected, unledgered |-> old.unledgered]
  OBVIOUS
<1>3. progress \in Checkpoint /\ progress.last = old.last
  BY <1>2 DEF Checkpoint, Locals
<1>4. Updated(p, status) = [old.scopes EXCEPT ![old.scope] = progress]
  BY <1>1, <1>2 DEF Updated, Progress, Local
<1>5. old.scope \in Scopes /\ Covers(old.scope, old.last, {})
  BY <1>1 DEF Position, Reading
<1>6. old.scopes \in [Scopes -> Checkpoint \cup {None}]
  BY DEF Locals
<1>7. Updated(p, status) \in [Scopes -> Checkpoint \cup {None}]
  BY <1>3, <1>4, <1>6
<1>8. \A s \in Scopes : Updated(p, status)[s] = IF s = old.scope THEN progress ELSE old.scopes[s]
  BY <1>4, <1>6
<1> QED
  BY <1>1, <1>3, <1>5, <1>7, <1>8 DEF ScopesCovered

LEMMA SaveProgressSafe ==
    ASSUME Invariants, NEW p \in Importers, SaveProgress(p)
    PROVE  Invariants'
<1>1. PICK old \in Locals : old = importers[p] /\ Position(old) /\ ScopesCovered(old.scopes)
  BY LocalFacts
<1>2. old.stage = "written"
  BY <1>1 DEF SaveProgress, At
<1>3. PICK scopes : scopes = Updated(p, "running")
  OBVIOUS
<1>4. scopes \in [Scopes -> Checkpoint \cup {None}] /\ ScopesCovered(scopes)
  BY <1>1, <1>2, <1>3, ProgressCovered
<1>5. PICK local : local = [old EXCEPT !.scopes = scopes, !.stage = "reading"]
  OBVIOUS
<1>6. local \in Locals /\ local.stage = "reading" /\ local.scope = old.scope
         /\ local.last = old.last /\ local.chunk = old.chunk /\ local.scopes = scopes
  BY <1>4, <1>5 DEF Locals, Stages
<1>7. Position(local)
  BY <1>1, <1>2, <1>6 DEF Position, Reading
<1>8. Becomes(p, local)
  BY <1>1, <1>3, <1>5 DEF SaveProgress, Local
<1>9. batch' = [status |-> batch'.status, imported |-> batch'.imported,
                rejected |-> batch'.rejected, scopes |-> scopes]
  BY <1>3 DEF SaveProgress, Invariants, Types
<1> QED
  BY <1>4, <1>6, <1>7, <1>8, <1>9, BatchAndProcess DEF SaveProgress

LEMMA CloseScopeSafe ==
    ASSUME Invariants, NEW p \in Importers, CloseScope(p)
    PROVE  Invariants'
<1>1. PICK old \in Locals : old = importers[p]
  BY LocalFacts
<1>2. PICK scopes : scopes = Updated(p, "completed")
  OBVIOUS
<1>3. scopes \in [Scopes -> Checkpoint \cup {None}] /\ ScopesCovered(scopes)
  BY <1>2, ProgressCovered DEF CloseScope, At
<1>4. PICK local : local = [Off EXCEPT !.stage = "counting", !.scope = old.scope,
                              !.selected = old.selected, !.unledgered = old.unledgered]
  OBVIOUS
<1>5. local = [stage |-> "counting", scope |-> old.scope, scopes |-> NoScopes, last |-> 0,
               selected |-> old.selected, unledgered |-> old.unledgered, chunk |-> {},
               counts |-> NoCounts]
  BY <1>4 DEF Off
<1>6. local \in Locals /\ ScopesCovered(local.scopes) /\ Position(local)
  BY <1>5 DEF Locals, NoCounts, Stages, NoScopes, ScopesCovered, Position, Reading
<1>7. Becomes(p, local)
  BY <1>1, <1>4 DEF CloseScope, Local
<1>8. batch' = [status |-> batch'.status, imported |-> batch'.imported,
                rejected |-> batch'.rejected, scopes |-> scopes]
  BY <1>2 DEF CloseScope, Invariants, Types
<1> QED
  BY <1>3, <1>6, <1>7, <1>8, BatchAndProcess DEF CloseScope

\* Steps that leave the checkpoints alone.
LEMMA ScopesKept ==
    ASSUME Invariants, UNCHANGED <<lines, identities>>,
           NEW p \in Importers, NEW local \in Locals, Becomes(p, local),
           ScopesCovered(local.scopes), Position(local),
           batch' = [status |-> batch'.status, imported |-> batch'.imported,
                     rejected |-> batch'.rejected, scopes |-> batch.scopes]
    PROVE  Invariants'
<1>1. PICK scopes \in [Scopes -> Checkpoint \cup {None}] : scopes = batch.scopes
  BY DEF Invariants, Types
<1>2. ScopesCovered(scopes)
  BY <1>1 DEF Invariants
<1> QED
  BY <1>1, <1>2, BatchAndProcess

\* The ledger is finite.
Of(state) == {id \in Ids : identities[id] = state}

LEMMA LedgerFinite ==
    ASSUME NEW state
    PROVE  IsFiniteSet(Of(state)) /\ Count(state) \in Nat
<1>1. Of(state) \in SUBSET Ids
  BY DEF Of
<1> QED
  BY <1>1, ArchiveAssumption, FS_Subset, FS_CardinalityType DEF Of, Count

LEMMA TakeCountsSafe ==
    ASSUME Invariants, NEW p \in Importers, TakeCounts(p)
    PROVE  Invariants'
<1>1. PICK old \in Locals : old = importers[p] /\ Position(old) /\ ScopesCovered(old.scopes)
  BY LocalFacts
<1>2. PICK counts : counts = [imported |-> Count("imported"),
                              rejected |-> Count("rejected") + old.unledgered]
  OBVIOUS
<1>3. PICK local : local = [old EXCEPT !.stage = "reconciling", !.counts = counts]
  OBVIOUS
<1>4. counts \in [imported : Nat, rejected : Nat]
  BY <1>2, LedgerFinite DEF Locals
<1>5. local \in Locals /\ ScopesCovered(local.scopes) /\ Position(local)
  BY <1>1, <1>3, <1>4 DEF Locals, Stages, Position, Reading
<1>6. Becomes(p, local) /\ UNCHANGED <<lines, identities, batch>>
  BY <1>1, <1>2, <1>3 DEF TakeCounts, Local
<1> QED
  BY <1>5, <1>6, OnlyProcess

LEMMA ReconcileSafe ==
    ASSUME Invariants, NEW p \in Importers, Reconcile(p)
    PROVE  Invariants'
<1>1. batch' = [status |-> batch'.status, imported |-> batch'.imported,
                rejected |-> batch'.rejected, scopes |-> batch.scopes]
  BY DEF Reconcile, Invariants, Types
<1>2. PICK old \in Locals : old = importers[p] /\ Position(old) /\ ScopesCovered(old.scopes)
  BY LocalFacts
<1>3. CASE Local(p).scope = Full
  <2>1. PICK local : local = [old EXCEPT !.stage = "verifying", !.counts = NoCounts]
    OBVIOUS
  <2>2. local \in Locals /\ ScopesCovered(local.scopes) /\ Position(local)
    BY <1>2, <2>1 DEF Locals, NoCounts, Stages, Position, Reading
  <2>3. Becomes(p, local)
    BY <1>2, <1>3, <2>1 DEF Reconcile, Local
  <2> QED
    BY <1>1, <2>2, <2>3, ScopesKept DEF Reconcile
<1>4. CASE Local(p).scope # Full
  <2>1. Becomes(p, Off) /\ Off \in Locals /\ ScopesCovered(Off.scopes) /\ Position(Off)
    BY <1>4 DEF Reconcile, Stops, Off, Locals, NoCounts, Stages, NoScopes, ScopesCovered,
               Position, Reading
  <2> QED
    BY <1>1, <2>1, ScopesKept DEF Reconcile
<1> QED
  BY <1>3, <1>4

\* The end of a batch, for better or worse.
LEMMA EndsSafe ==
    ASSUME Invariants, NEW p \in Importers, CompleteBatch(p) \/ Fail(p)
    PROVE  Invariants'
<1>1. batch' = [status |-> batch'.status, imported |-> batch'.imported,
                rejected |-> batch'.rejected, scopes |-> batch.scopes]
  BY DEF CompleteBatch, Fail, Invariants, Types
<1>2. PICK stage \in {"off", "analyzing"} : Becomes(p, [Off EXCEPT !.stage = stage])
  <2>1. Off = [Off EXCEPT !.stage = "off"]
    BY DEF Off
  <2> QED
    BY <2>1 DEF CompleteBatch, Fail, Stops
<1>3. PICK local : local = [Off EXCEPT !.stage = stage]
  OBVIOUS
<1>4. local \in Locals /\ ScopesCovered(local.scopes) /\ Position(local)
  BY <1>3, OffFacts DEF Stages, Reading
<1> QED
  BY <1>1, <1>2, <1>3, <1>4, ScopesKept DEF CompleteBatch, Fail

LEMMA GivesUpSafe ==
    ASSUME Invariants, NEW p \in Importers,
           Verify(p) \/ Analyze(p) \/ FlushFails(p) \/ StatementFails(p) \/ Killed(p)
    PROVE  Invariants'
<1>1. UNCHANGED <<lines, identities, batch>>
  BY DEF Verify, Analyze, FlushFails, StatementFails, Killed
<1>2. \E stage \in {"off", "failing", "completing"} : Becomes(p, [Off EXCEPT !.stage = stage])
  <2>1. Off = [Off EXCEPT !.stage = "off"]
    BY DEF Off
  <2> QED
    BY <2>1 DEF Verify, Analyze, FlushFails, StatementFails, Killed, Stops, Raises
<1>3. PICK stage \in {"off", "failing", "completing"} : Becomes(p, [Off EXCEPT !.stage = stage])
  BY <1>2
<1>4. stage \in Stages \ Reading
  BY DEF Stages, Reading
<1> QED
  BY <1>1, <1>3, <1>4, StopsSafe

-------------------------------------------------------------------------------

LEMMA InitSafe ==
    ASSUME Init
    PROVE  Invariants
<1>1. Off \in Locals /\ ScopesCovered(Off.scopes) /\ Position(Off)
  BY DEF Off, Locals, NoCounts, Stages, NoScopes, ScopesCovered, Position, Reading
<1>2. NoBatch.scopes \in [Scopes -> Checkpoint \cup {None}] /\ ScopesCovered(NoBatch.scopes)
  BY DEF NoBatch, NoScopes, ScopesCovered
<1>3. Types
  BY <1>1, <1>2 DEF Init, Types, NoBatch, IdentityStates
<1> QED
  BY <1>1, <1>2, <1>3 DEF Init, Invariants, LocalScopes, Positions

LEMMA NextSafe ==
    ASSUME Invariants, [Next]_vars
    PROVE  Invariants'
<1>1. CASE UNCHANGED vars
  BY <1>1 DEF vars, Invariants, Types, Locals, LocalScopes, Positions, Position, ScopesCovered,
              Covers, Selected, Includes, IdentityOf
<1>2. CASE Next
  <2>1. PICK p \in Importers : \/ \E scope \in Scopes : Open(p, scope)
                               \/ Import(p) \/ StatementFails(p) \/ Killed(p)
    BY <1>2 DEF Next
  <2>2. CASE \E scope \in Scopes : Open(p, scope)
    BY <2>2, OpenSafe
  <2>3. CASE Import(p)
    BY <2>3, MarkRunningSafe, SkipsSafe, TakesSafe, RefusesSafe, FlushSafe, SaveProgressSafe,
       CloseScopeSafe, TakeCountsSafe, ReconcileSafe, EndsSafe, GivesUpSafe DEF Import
  <2>4. CASE StatementFails(p) \/ Killed(p)
    BY <2>4, GivesUpSafe
  <2> QED
    BY <2>1, <2>2, <2>3, <2>4
<1> QED
  BY <1>1, <1>2

\* The inductive invariant holds in every reachable state.
THEOREM Invariant == Spec => []Invariants
BY InitSafe, NextSafe, PTL DEF Spec

\* A checkpoint never runs ahead of the rows (history_archive_import.py:807-836).
THEOREM CheckpointAlwaysCovers == Spec => []CheckpointCovers
<1>1. Invariants => CheckpointCovers
  BY DEF Invariants, ScopesCovered, Covers, CheckpointCovers
<1> QED
  BY <1>1, Invariant, PTL

-------------------------------------------------------------------------------
(* The counts.  What a process has counted is a matter of the export alone;  *)
(* what the batch counts is a matter of the rows.                            *)

Size == Cardinality(DOMAIN lines)
Passed(scope, last) == {n \in DOMAIN lines : n <= last /\ Selected(scope, n)}
Keyless(last) ==
    {n \in DOMAIN lines : n <= last /\ lines[n].kind = "refused" /\ lines[n].id = None}

CheckpointCounted(c, scope) ==
    /\ c.selected = Cardinality(Passed(scope, c.last))
    /\ c.unledgered <= Cardinality(Keyless(c.last))
ScopesCounted(scopes) == \A s \in Scopes : scopes[s] # None => CheckpointCounted(scopes[s], s)

\* A process that closes the full scope has passed all lines, and what it takes
\* along to the comparison is what it counted of them.
LocalCounted(local) ==
    /\ ScopesCounted(local.scopes)
    /\ local.stage \in Reading => /\ CheckpointCounted(local, local.scope)
                                  /\ \A n \in local.chunk : Selected(local.scope, n)
    /\ local.stage = "closing" /\ local.scope = Full => \A n \in DOMAIN lines : n <= local.last
    /\ local.stage \in {"counting", "reconciling", "verifying"} =>
          /\ local.unledgered <= Cardinality(Keyless(Size))
          /\ local.scope = Full => local.selected = Cardinality(LinesOf({"good"}))
    /\ local.stage = "verifying" => local.scope = Full

AllImported == \A n \in LinesOf({"good"}) : IdentityOf(n) = "imported"

\* CompletedMeansAll, of the rows.
AllThere ==
    \A n \in DOMAIN lines :
        /\ lines[n].kind \in {"good", "unmapped"} => IdentityOf(n) = "imported"
        /\ (lines[n].kind = "refused" /\ lines[n].id # None) => IdentityOf(n) = "rejected"

\* What a process has counted and is about to write may be too low by then.
LocalDone(local) ==
    /\ local.stage \in {"counting", "reconciling", "verifying"} /\ local.scope = Full => AllImported
    /\ local.stage = "reconciling" =>
          /\ local.counts.imported \in Nat /\ local.counts.rejected \in Nat
          /\ local.counts.imported <= Count("imported")
          /\ local.counts.rejected <= Count("rejected") + Cardinality(Keyless(Size))
    /\ local.stage = "completing" => AllThere

\* Every row of the ledger comes from a line.
Sources ==
    \A id \in Ids :
        /\ identities[id] = "imported" => \E n \in LinesOf({"good"}) : lines[n].id = id
        /\ identities[id] = "rejected" => \E n \in LinesOf({"refused", "unmapped"}) : lines[n].id = id

\* The rejections the batch counts are those of the ledger and lines without a key.
BatchCounted ==
    /\ batch.imported \in Nat /\ batch.imported <= Count("imported")
    /\ batch.rejected \in Nat
    /\ batch.rejected <= Count("rejected") + Cardinality(Keyless(Size))
    /\ ScopesCounted(batch.scopes)
    /\ batch.status = "completed" => AllThere

Counted ==
    /\ Sources /\ BatchCounted
    /\ \A p \in Importers : LocalCounted(importers[p]) /\ LocalDone(importers[p])

\* Where every element of S stands for one of T, the one is no larger than the other,
\* and if it is as large nothing of T goes without.
LEMMA OneForEach ==
    ASSUME NEW S, NEW T, IsFiniteSet(T), NEW f, \A x \in S : \E y \in T : f[y] = x
    PROVE  /\ IsFiniteSet(S)
           /\ Cardinality(S) \in Nat
           /\ Cardinality(S) <= Cardinality(T)
           /\ Cardinality(S) = Cardinality(T) => \A y \in T : f[y] \in S
<1>1. PICK g \in [S -> T] : \A x \in S : f[g[x]] = x
  <2>1. [x \in S |-> CHOOSE y \in T : f[y] = x] \in [S -> T]
    OBVIOUS
  <2> QED
    BY <2>1
<1>2. g \in Injection(S, T)
  BY <1>1 DEF Injection, IsInjective
<1>3. /\ IsFiniteSet(S) /\ Cardinality(S) <= Cardinality(T)
      /\ Cardinality(S) = Cardinality(T) <=> g \in Surjection(S, T)
  BY <1>2, FS_Injection
<1>4. ASSUME g \in Surjection(S, T)
      PROVE  \A y \in T : f[y] \in S
  BY <1>1, <1>4 DEF Surjection
<1> QED
  BY <1>3, <1>4, FS_CardinalityType

\* The lines are those from 1 to Size; only a refused one has no key, and no two others
\* have the same.
LEMMA LinesFacts ==
    ASSUME lines \in Files
    PROVE  /\ IsFiniteSet(DOMAIN lines) /\ Size \in Nat
           /\ DOMAIN lines = 1..Size
           /\ \A n \in DOMAIN lines : lines[n].kind # "refused" => lines[n].id \in Ids
           /\ \A n \in DOMAIN lines : lines[n].id \in Ids \cup {None}
           /\ \A n \in DOMAIN lines : lines[n].kind \in {"good", "late", "refused", "unmapped"}
           /\ \A m, n \in DOMAIN lines :
                (m # n /\ lines[m].id = lines[n].id) => "refused" \in {lines[m].kind, lines[n].kind}
           /\ None \notin Ids
<1>1. /\ IsFiniteSet(DOMAIN lines) /\ Exported(lines) /\ None \notin Ids
  BY ArchiveAssumption
<1>2. lines \in [1..Size -> Line] /\ Size \in Nat
  BY <1>1, FS_CardinalityType DEF Exported, Size
<1>3. \A n \in DOMAIN lines : lines[n] \in Line
  BY <1>2
<1> QED
  BY <1>1, <1>2, <1>3 DEF Exported, Line

LEMMA CountedSets ==
    ASSUME lines \in Files, NEW s, NEW last
    PROVE  /\ IsFiniteSet(Passed(s, last)) /\ Cardinality(Passed(s, last)) \in Nat
           /\ IsFiniteSet(Keyless(last)) /\ Cardinality(Keyless(last)) \in Nat
<1>1. Passed(s, last) \in SUBSET DOMAIN lines /\ Keyless(last) \in SUBSET DOMAIN lines
  BY DEF Passed, Keyless
<1> QED
  BY <1>1, LinesFacts, FS_Subset, FS_CardinalityType

\* One line on: what is counted grows by that line or not at all.
LEMMA NextLine ==
    ASSUME lines \in Files, NEW s, NEW last \in Nat, last + 1 \in DOMAIN lines
    PROVE  /\ Cardinality(Passed(s, last + 1)) =
                IF Selected(s, last + 1) THEN Cardinality(Passed(s, last)) + 1
                                         ELSE Cardinality(Passed(s, last))
           /\ Cardinality(Keyless(last + 1)) =
                IF lines[last + 1].kind = "refused" /\ lines[last + 1].id = None
                THEN Cardinality(Keyless(last)) + 1 ELSE Cardinality(Keyless(last))
<1>1. \A n \in DOMAIN lines : n \in Nat
  BY LinesFacts
<1>2. \A n \in DOMAIN lines : n <= last + 1 <=> (n <= last \/ n = last + 1)
  BY <1>1
<1>3. ~(last + 1 <= last)
  OBVIOUS
<1>4. Passed(s, last + 1) = IF Selected(s, last + 1) THEN Passed(s, last) \cup {last + 1}
                                                     ELSE Passed(s, last)
  BY <1>2 DEF Passed
<1>5. Keyless(last + 1) = IF lines[last + 1].kind = "refused" /\ lines[last + 1].id = None
                          THEN Keyless(last) \cup {last + 1} ELSE Keyless(last)
  BY <1>2 DEF Keyless
<1>6. last + 1 \notin Passed(s, last) /\ last + 1 \notin Keyless(last)
  BY <1>3 DEF Passed, Keyless
<1>7. IsFiniteSet(Passed(s, last)) /\ IsFiniteSet(Keyless(last))
  BY CountedSets
<1>8. Cardinality(Passed(s, last) \cup {last + 1}) = Cardinality(Passed(s, last)) + 1
  BY <1>6, <1>7, FS_AddElement
<1>9. Cardinality(Keyless(last) \cup {last + 1}) = Cardinality(Keyless(last)) + 1
  BY <1>6, <1>7, FS_AddElement
<1> QED
  BY <1>4, <1>5, <1>8, <1>9

\* Nothing more is counted than all the export has.
LEMMA WithinExport ==
    ASSUME lines \in Files, NEW last
    PROVE  Cardinality(Keyless(last)) <= Cardinality(Keyless(Size))
<1>1. Keyless(last) \in SUBSET Keyless(Size)
  BY LinesFacts DEF Keyless
<1> QED
  BY <1>1, CountedSets, FS_Subset

LEMMA WholeExport ==
    ASSUME lines \in Files, NEW last, \A n \in DOMAIN lines : n <= last
    PROVE  Passed(Full, last) = LinesOf({"good"})
<1>1. ASSUME NEW s, s = Full, NEW n
      PROVE  Includes(s, n)
  BY <1>1, ArchiveAssumption DEF Includes
<1>2. \A n : Includes(Full, n)
  BY <1>1
<1> QED
  BY <1>2 DEF Passed, LinesOf, Selected

-------------------------------------------------------------------------------
(* What a step leaves as it is.                                            *)

LEMMA SameExport ==
    ASSUME lines' = lines
    PROVE  /\ \A s, last : Passed(s, last)' = Passed(s, last)
           /\ \A last : Keyless(last)' = Keyless(last)
           /\ Size' = Size
           /\ \A kinds : LinesOf(kinds)' = LinesOf(kinds)
           /\ \A s, n : Selected(s, n)' = Selected(s, n)
<1>1. \A s, n : Selected(s, n)' = Selected(s, n)
  BY DEF Selected, Includes
<1>2. \A s, last : Passed(s, last)' = Passed(s, last)
  BY <1>1 DEF Passed
<1>3. \A last : Keyless(last)' = Keyless(last)
  BY DEF Keyless
<1>4. Size' = Size
  BY DEF Size
<1>5. \A kinds : LinesOf(kinds)' = LinesOf(kinds)
  BY DEF LinesOf
<1> QED
  BY <1>1, <1>2, <1>3, <1>4, <1>5

LEMMA CheckpointStays ==
    ASSUME lines' = lines, NEW c, NEW s, CheckpointCounted(c, s)
    PROVE  CheckpointCounted(c, s)'
<1>1. Passed(s, c.last)' = Passed(s, c.last) /\ Keyless(c.last)' = Keyless(c.last)
  BY SameExport
<1> QED
  BY <1>1 DEF CheckpointCounted

LEMMA ScopesCountedStay ==
    ASSUME lines' = lines, NEW scopes, ScopesCounted(scopes)
    PROVE  ScopesCounted(scopes)'
<1> SUFFICES ASSUME NEW s \in Scopes, scopes[s] # None
             PROVE  CheckpointCounted(scopes[s], s)'
  BY DEF ScopesCounted
<1>1. PICK c : c = scopes[s]
  OBVIOUS
<1>2. CheckpointCounted(c, s)'
  BY <1>1, CheckpointStays DEF ScopesCounted
<1> QED
  BY <1>1, <1>2

LEMMA LocalCountedStays ==
    ASSUME lines' = lines, NEW local, LocalCounted(local)
    PROVE  LocalCounted(local)'
<1>1. PICK scopes : scopes = local.scopes
  OBVIOUS
<1>2. ScopesCounted(scopes)'
  BY <1>1, ScopesCountedStay DEF LocalCounted
<1>3. ScopesCounted(local.scopes)'
  BY <1>1, <1>2
<1>4. local.stage \in Reading => CheckpointCounted(local, local.scope)'
  <2> SUFFICES ASSUME local.stage \in Reading
               PROVE  CheckpointCounted(local, local.scope)'
    OBVIOUS
  <2>1. PICK s : s = local.scope
    OBVIOUS
  <2>2. CheckpointCounted(local, s)'
    BY <2>1, CheckpointStays DEF LocalCounted
  <2> QED
    BY <2>1, <2>2
<1>5. local.stage \in Reading => \A n \in local.chunk : Selected(local.scope, n)'
  BY SameExport DEF LocalCounted
<1>6. local.stage = "closing" /\ local.scope = Full => \A n \in DOMAIN lines' : n <= local.last
  BY DEF LocalCounted
<1>7. /\ Keyless(Size)' = Keyless(Size)
      /\ LinesOf({"good"})' = LinesOf({"good"})
  BY SameExport DEF Keyless
<1>8. local.stage \in {"counting", "reconciling", "verifying"} =>
          /\ local.unledgered <= Cardinality(Keyless(Size)')
          /\ local.scope = Full => local.selected = Cardinality(LinesOf({"good"})')
  BY <1>7 DEF LocalCounted
<1>9. local.stage = "verifying" => local.scope = Full
  BY DEF LocalCounted
<1> QED
  BY <1>3, <1>4, <1>5, <1>6, <1>8, <1>9 DEF LocalCounted

\* No row that is imported or rejected changes again.
Settles ==
    \A id \in Ids : identities[id] \in {"imported", "rejected"} => identities'[id] = identities[id]

LEMMA AllImportedStays ==
    ASSUME Types, lines' = lines, Settles, AllImported
    PROVE  AllImported'
<1> SUFFICES ASSUME NEW n \in DOMAIN lines, lines[n].kind = "good"
             PROVE  identities'[lines[n].id] = "imported"
  BY DEF AllImported, LinesOf, IdentityOf
<1>1. lines[n].id \in Ids
  BY LinesFacts DEF Types
<1>2. identities[lines[n].id] = "imported"
  BY DEF AllImported, LinesOf, IdentityOf
<1> QED
  BY <1>1, <1>2 DEF Settles

LEMMA AllThereStays ==
    ASSUME Types, lines' = lines, Settles, AllThere
    PROVE  AllThere'
<1> SUFFICES ASSUME NEW n \in DOMAIN lines
             PROVE  /\ lines[n].kind \in {"good", "unmapped"} => identities'[lines[n].id] = "imported"
                    /\ (lines[n].kind = "refused" /\ lines[n].id # None)
                          => identities'[lines[n].id] = "rejected"
  BY DEF AllThere, IdentityOf
<1>1. lines[n].kind # "refused" \/ lines[n].id # None => lines[n].id \in Ids
  BY LinesFacts DEF Types
<1>2. /\ lines[n].kind \in {"good", "unmapped"} => identities[lines[n].id] = "imported"
      /\ (lines[n].kind = "refused" /\ lines[n].id # None) => identities[lines[n].id] = "rejected"
  BY DEF AllThere, IdentityOf
<1> QED
  BY <1>1, <1>2 DEF Settles

LEMMA CountsGrow ==
    ASSUME Settles, NEW state \in {"imported", "rejected"}
    PROVE  /\ Count(state) <= Count(state)'
           /\ Count(state) \in Nat /\ Count(state)' \in Nat
<1>1. PICK before : before = Of(state)
  OBVIOUS
<1>2. PICK after : after = Of(state)'
  OBVIOUS
<1>3. before \in SUBSET after /\ after \in SUBSET Ids
  BY <1>1, <1>2 DEF Of, Settles
<1>4. IsFiniteSet(after)
  BY <1>3, ArchiveAssumption, FS_Subset
<1>5. /\ Cardinality(before) <= Cardinality(after)
      /\ Cardinality(before) \in Nat /\ Cardinality(after) \in Nat
  BY <1>3, <1>4, FS_Subset, FS_CardinalityType
<1> QED
  BY <1>1, <1>2, <1>5 DEF Count, Of

LEMMA LocalDoneStays ==
    ASSUME Types, lines' = lines, Settles, NEW local, LocalDone(local)
    PROVE  LocalDone(local)'
<1>1. local.stage \in {"counting", "reconciling", "verifying"} /\ local.scope = Full => AllImported'
  BY AllImportedStays DEF LocalDone
<1>2. local.stage = "completing" => AllThere'
  BY AllThereStays DEF LocalDone
<1>3. ASSUME local.stage = "reconciling"
      PROVE  /\ local.counts.imported \in Nat /\ local.counts.rejected \in Nat
             /\ local.counts.imported <= Count("imported")'
             /\ local.counts.rejected <= Count("rejected")' + Cardinality(Keyless(Size))'
  <2>1. Cardinality(Keyless(Size))' = Cardinality(Keyless(Size))
    BY DEF Keyless, Size
  <2>2. Cardinality(Keyless(Size)) \in Nat
    BY CountedSets DEF Types
  <2>3. /\ local.counts.imported <= Count("imported")
        /\ local.counts.rejected <= Count("rejected") + Cardinality(Keyless(Size))
        /\ local.counts.imported \in Nat /\ local.counts.rejected \in Nat
    BY <1>3 DEF LocalDone
  <2>4. /\ Count("imported") <= Count("imported")' /\ Count("rejected") <= Count("rejected")'
        /\ Count("imported") \in Nat /\ Count("imported")' \in Nat
        /\ Count("rejected") \in Nat /\ Count("rejected")' \in Nat
    BY CountsGrow
  <2> QED
    BY <2>1, <2>2, <2>3, <2>4
<1> QED
  BY <1>1, <1>2, <1>3 DEF LocalDone

\* Of a step of one process it is enough to look at that process, the rows and the batch.
LEMMA StepCounted ==
    ASSUME Invariants, Counted, lines' = lines, Settles,
           NEW p \in Importers, NEW local, Becomes(p, local),
           LocalCounted(local), LocalDone(local)', Sources', BatchCounted'
    PROVE  Counted'
<1>1. Types
  BY DEF Invariants
<1>2. importers'[p] = local /\ \A q \in Importers \ {p} : importers'[q] = importers[q]
  BY <1>1 DEF Becomes, Types
<1> SUFFICES ASSUME NEW q \in Importers
             PROVE  LocalCounted(importers[q])' /\ LocalDone(importers[q])'
  BY DEF Counted
<1>3. CASE q = p
  <2>1. LocalCounted(local)'
    BY LocalCountedStays
  <2> QED
    BY <1>2, <1>3, <2>1
<1>4. CASE q # p
  <2>1. PICK old : old = importers[q]
    OBVIOUS
  <2>2. LocalCounted(old) /\ LocalDone(old)
    BY <2>1 DEF Counted
  <2>3. LocalCounted(old)' /\ LocalDone(old)'
    BY <1>1, <2>2, LocalCountedStays, LocalDoneStays
  <2> QED
    BY <1>2, <1>4, <2>1, <2>3
<1> QED
  BY <1>3, <1>4

-------------------------------------------------------------------------------
(* Steps that write no row.                                                *)

LEMMA RowsKept ==
    ASSUME Types, Counted, UNCHANGED <<lines, identities>>
    PROVE  /\ Settles /\ Sources'
           /\ \A state : Count(state)' = Count(state)
           /\ Cardinality(Keyless(Size))' = Cardinality(Keyless(Size))
           /\ AllThere => AllThere'
<1>1. Settles
  BY DEF Settles
<1>2. Sources'
  <2>1. Sources /\ LinesOf({"good"})' = LinesOf({"good"})
        /\ LinesOf({"refused", "unmapped"})' = LinesOf({"refused", "unmapped"})
    BY SameExport DEF Counted
  <2> QED
    BY <2>1 DEF Sources
<1>3. \A state : Count(state)' = Count(state)
  BY DEF Count
<1>4. Cardinality(Keyless(Size))' = Cardinality(Keyless(Size))
  BY DEF Keyless, Size
<1>5. AllThere => AllThere'
  BY <1>1, AllThereStays
<1> QED
  BY <1>1, <1>2, <1>3, <1>4, <1>5

LEMMA QuietCounted ==
    ASSUME Invariants, Counted, UNCHANGED <<lines, identities, batch>>,
           NEW p \in Importers, NEW local, Becomes(p, local),
           LocalCounted(local), LocalDone(local)
    PROVE  Counted'
<1>1. Types
  BY DEF Invariants
<1>2. BatchCounted'
  <2>1. PICK scopes : scopes = batch.scopes
    OBVIOUS
  <2>2. ScopesCounted(scopes)'
    BY <2>1, ScopesCountedStay DEF Counted, BatchCounted
  <2>3. ScopesCounted(batch.scopes)'
    BY <2>1, <2>2
  <2> QED
    BY <1>1, <2>3, RowsKept DEF Counted, BatchCounted
<1>3. LocalDone(local)'
  BY <1>1, RowsKept, LocalDoneStays
<1> QED
  BY <1>1, <1>2, <1>3, RowsKept, StepCounted

\* A step that writes the batch and no row.
LEMMA BatchWritten ==
    ASSUME Invariants, Counted, UNCHANGED <<lines, identities>>,
           NEW p \in Importers, NEW local, Becomes(p, local),
           LocalCounted(local), LocalDone(local),
           batch'.imported \in Nat, batch'.imported <= Count("imported"),
           batch'.rejected \in Nat,
           batch'.rejected <= Count("rejected") + Cardinality(Keyless(Size)),
           NEW scopes, ScopesCounted(scopes), batch'.scopes = scopes,
           batch'.status = "completed" => AllThere
    PROVE  Counted'
<1>1. Types
  BY DEF Invariants
<1>2. BatchCounted'
  <2>1. ScopesCounted(scopes)'
    BY ScopesCountedStay
  <2>2. ScopesCounted(batch.scopes)'
    BY <2>1
  <2> QED
    BY <1>1, <2>2, RowsKept DEF BatchCounted
<1>3. LocalDone(local)'
  BY <1>1, RowsKept, LocalDoneStays
<1> QED
  BY <1>1, <1>2, <1>3, RowsKept, StepCounted

LEMMA CountedFacts ==
    ASSUME Invariants, Counted, NEW p \in Importers
    PROVE  /\ importers[p] \in Locals /\ Position(importers[p])
           /\ LocalCounted(importers[p]) /\ LocalDone(importers[p])
           /\ lines \in Files
BY LocalFacts DEF Counted, Invariants, Types

LEMMA OffCounted ==
    ASSUME NEW stage \in {"off", "failing", "completing", "analyzing"}
    PROVE  LocalCounted([Off EXCEPT !.stage = stage])
<1>1. PICK local : local = [Off EXCEPT !.stage = stage]
  OBVIOUS
<1>2. local.stage = stage /\ local.scopes = NoScopes
  BY <1>1 DEF Off
<1>3. LocalCounted(local)
  BY <1>2 DEF LocalCounted, ScopesCounted, NoScopes, Reading
<1> QED
  BY <1>1, <1>3

LEMMA StopCounted ==
    ASSUME NEW stage \in {"off", "failing", "analyzing"}
    PROVE  LocalDone([Off EXCEPT !.stage = stage])
BY DEF LocalDone, Off

LEMMA OpenCounted ==
    ASSUME Invariants, Counted, NEW p \in Importers, NEW scope \in Scopes, Open(p, scope)
    PROVE  Counted'
<1>1. PICK scopes : scopes = batch.scopes
  OBVIOUS
<1>2. /\ batch'.scopes = scopes /\ batch'.imported = batch.imported
      /\ batch'.rejected = batch.rejected
      /\ batch'.status = "completed" => batch.status = "completed"
  BY <1>1 DEF Open, Invariants, Types
<1>3. ScopesCounted(scopes)
  BY <1>1 DEF Counted, BatchCounted
<1>4. UNCHANGED <<lines, identities>>
  BY DEF Open
<1>5. /\ batch'.imported \in Nat /\ batch'.imported <= Count("imported") /\ batch'.rejected \in Nat
      /\ batch'.rejected <= Count("rejected") + Cardinality(Keyless(Size))
      /\ batch'.status = "completed" => AllThere
  BY <1>2 DEF Counted, BatchCounted
<1>6. CASE Prior(scope).status = "completed"
  <2>1. PICK local : local = importers[p]
    OBVIOUS
  <2>2. LocalCounted(local) /\ LocalDone(local)
    BY <2>1, CountedFacts
  <2>3. Becomes(p, local)
    BY <1>6, <2>1 DEF Open, Becomes, Invariants, Types
  <2> QED
    BY <1>2, <1>3, <1>4, <1>5, <2>2, <2>3, BatchWritten
<1>7. CASE Prior(scope).status # "completed"
  <2>1. PICK prior : prior = Prior(scope)
    OBVIOUS
  <2>2. PICK local : local = Resumed(scope, prior)
    OBVIOUS
  <2>3. local = [stage |-> "opened", scope |-> scope, scopes |-> scopes,
                 last |-> prior.last, selected |-> prior.selected,
                 unledgered |-> prior.unledgered, chunk |-> {}, counts |-> NoCounts]
    BY <1>1, <2>2 DEF Resumed, Off
  <2>4. CheckpointCounted(prior, scope)
    <3>1. CASE scopes[scope] = None
      <4>1. prior.last = 0 /\ prior.selected = 0 /\ prior.unledgered = 0
        BY <1>1, <2>1, <3>1 DEF Prior, Fresh
      <4>2. \A n \in DOMAIN lines : ~(n <= 0)
        BY LinesFacts DEF Invariants, Types
      <4>3. Passed(scope, 0) = {} /\ Keyless(0) = {}
        BY <4>2 DEF Passed, Keyless
      <4>4. Cardinality({}) = 0
        BY FS_EmptySet
      <4> QED
        BY <4>1, <4>3, <4>4 DEF CheckpointCounted
    <3>2. CASE scopes[scope] # None
      BY <1>1, <1>3, <2>1, <3>2 DEF Prior, ScopesCounted
    <3> QED
      BY <3>1, <3>2
  <2>5. LocalCounted(local)
    <3>1. /\ local.stage = "opened" /\ local.scopes = scopes /\ local.chunk = {}
          /\ local.scope = scope /\ local.last = prior.last
          /\ local.selected = prior.selected /\ local.unledgered = prior.unledgered
      BY <2>3
    <3>2. CheckpointCounted(local, scope)
      BY <2>4, <3>1 DEF CheckpointCounted
    <3> QED
      BY <1>3, <3>1, <3>2 DEF LocalCounted
  <2>6. LocalDone(local)
    BY <2>3 DEF LocalDone
  <2>7. Becomes(p, local)
    BY <1>7, <2>1, <2>2 DEF Open
  <2> QED
    BY <1>2, <1>3, <1>4, <1>5, <2>5, <2>6, <2>7, BatchWritten
<1> QED
  BY <1>6, <1>7

LEMMA MarkRunningCounted ==
    ASSUME Invariants, Counted, NEW p \in Importers, MarkRunning(p)
    PROVE  Counted'
<1>1. PICK old \in Locals : old = importers[p] /\ LocalCounted(old)
  BY CountedFacts
<1>2. old.stage = "opened"
  BY <1>1 DEF MarkRunning, At
<1>3. PICK local : local = [old EXCEPT !.stage = "reading"]
  OBVIOUS
<1>4. /\ local.stage = "reading" /\ local.scopes = old.scopes /\ local.chunk = old.chunk
      /\ local.scope = old.scope /\ local.last = old.last
      /\ local.selected = old.selected /\ local.unledgered = old.unledgered
  BY <1>3 DEF Locals
<1>5. LocalCounted(local)
  <2>1. CheckpointCounted(local, old.scope)
    BY <1>1, <1>2, <1>4 DEF LocalCounted, CheckpointCounted, Reading
  <2> QED
    BY <1>1, <1>2, <1>4, <2>1 DEF LocalCounted, Reading
<1>6. LocalDone(local)
  BY <1>4 DEF LocalDone
<1>7. Becomes(p, local)
  BY <1>1, <1>3 DEF MarkRunning, Goes, Local
<1>8. PICK scopes : scopes = batch.scopes
  OBVIOUS
<1>9. /\ batch'.scopes = scopes /\ batch'.imported = batch.imported
      /\ batch'.rejected = batch.rejected /\ batch'.status = "running"
  BY <1>8 DEF MarkRunning, Invariants, Types
<1>10. /\ batch'.imported \in Nat /\ batch'.imported <= Count("imported") /\ batch'.rejected \in Nat
       /\ batch'.rejected <= Count("rejected") + Cardinality(Keyless(Size))
       /\ ScopesCounted(scopes)
  BY <1>8, <1>9 DEF Counted, BatchCounted
<1>11. UNCHANGED <<lines, identities>>
  BY DEF MarkRunning
<1> QED
  BY <1>5, <1>6, <1>7, <1>9, <1>10, <1>11, BatchWritten

-------------------------------------------------------------------------------
(* The loop over the lines.                                                *)

\* A process that has moved on by one line, having counted it as it should.
LEMMA MovesOn ==
    ASSUME lines \in Files, NEW old \in Locals, LocalCounted(old), old.stage = "reading",
           old.last + 1 \in DOMAIN lines, NEW local \in Locals,
           local.stage = "reading", local.scopes = old.scopes, local.scope = old.scope,
           local.last = old.last + 1,
           local.selected = IF Selected(old.scope, old.last + 1) THEN old.selected + 1
                                                                 ELSE old.selected,
           \/ local.unledgered = old.unledgered
           \/ /\ lines[old.last + 1].kind = "refused" /\ lines[old.last + 1].id = None
              /\ local.unledgered = old.unledgered + 1,
           \A n \in local.chunk : n \in old.chunk \/ Selected(old.scope, n)
    PROVE  LocalCounted(local) /\ LocalDone(local)
<1>1. CheckpointCounted(old, old.scope) /\ \A n \in old.chunk : Selected(old.scope, n)
  BY DEF LocalCounted, Reading
<1>2. PICK last \in Nat : last = old.last
  BY DEF Locals
<1>3. PICK s : s = old.scope
  OBVIOUS
<1>4. /\ Cardinality(Passed(s, last + 1)) =
           IF Selected(s, last + 1) THEN Cardinality(Passed(s, last)) + 1
                                    ELSE Cardinality(Passed(s, last))
      /\ Cardinality(Keyless(last + 1)) =
           IF lines[last + 1].kind = "refused" /\ lines[last + 1].id = None
           THEN Cardinality(Keyless(last)) + 1 ELSE Cardinality(Keyless(last))
  BY <1>2, NextLine
<1>5. Cardinality(Keyless(last)) \in Nat /\ Cardinality(Passed(s, last)) \in Nat
  BY CountedSets
<1>6. old.selected \in Nat /\ old.unledgered \in Nat
  BY DEF Locals
<1>7. old.selected = Cardinality(Passed(s, last)) /\ old.unledgered <= Cardinality(Keyless(last))
  BY <1>1, <1>2, <1>3 DEF CheckpointCounted
<1>8. local.selected = Cardinality(Passed(s, last + 1))
  BY <1>2, <1>3, <1>4, <1>7
<1>9. local.unledgered <= Cardinality(Keyless(last + 1))
  BY <1>2, <1>4, <1>5, <1>6, <1>7
<1>10. CheckpointCounted(local, s)
  BY <1>2, <1>8, <1>9 DEF CheckpointCounted
<1>11. ScopesCounted(local.scopes)
  BY DEF LocalCounted
<1> QED
  BY <1>1, <1>3, <1>10, <1>11 DEF LocalCounted, LocalDone

LEMMA SkipsCounted ==
    ASSUME Invariants, Counted, NEW p \in Importers, NEW n \in DOMAIN lines, Skips(p, n)
    PROVE  Counted'
<1>1. PICK old \in Locals : old = importers[p] /\ LocalCounted(old) /\ lines \in Files
  BY CountedFacts
<1>2. old.stage = "reading" /\ n = old.last + 1 /\ ~Selected(old.scope, n)
  BY <1>1 DEF Skips, Reads, At, Local, Selected
<1>3. PICK local : local = [old EXCEPT !.last = n]
  OBVIOUS
<1>4. n \in Nat
  BY <1>1, LinesFacts
<1>5. /\ local \in Locals /\ local.stage = "reading" /\ local.scopes = old.scopes
      /\ local.chunk = old.chunk /\ local.scope = old.scope /\ local.last = n
      /\ local.selected = old.selected /\ local.unledgered = old.unledgered
  BY <1>2, <1>3, <1>4 DEF Locals
<1>6. LocalCounted(local) /\ LocalDone(local)
  BY <1>1, <1>2, <1>5, MovesOn
<1>7. Becomes(p, local) /\ UNCHANGED <<lines, identities, batch>>
  BY <1>1, <1>3 DEF Skips, Local
<1> QED
  BY <1>6, <1>7, QuietCounted

LEMMA TakesCounted ==
    ASSUME Invariants, Counted, NEW p \in Importers, NEW n \in DOMAIN lines, Takes(p, n)
    PROVE  Counted'
<1>1. PICK old \in Locals : old = importers[p] /\ LocalCounted(old) /\ lines \in Files
  BY CountedFacts
<1>2. old.stage = "reading" /\ n = old.last + 1 /\ Selected(old.scope, n)
  BY <1>1 DEF Takes, Reads, At, Local
<1>3. PICK local : local = [old EXCEPT !.last = n, !.selected = old.selected + 1,
                                       !.chunk = old.chunk \cup {n}]
  OBVIOUS
<1>4. n \in Nat /\ old.selected + 1 \in Nat /\ old.chunk \cup {n} \in SUBSET DOMAIN lines
  BY <1>1, LinesFacts DEF Locals
<1>5. local = [stage |-> "reading", scope |-> old.scope, scopes |-> old.scopes, last |-> n,
               selected |-> old.selected + 1, unledgered |-> old.unledgered,
               chunk |-> old.chunk \cup {n}, counts |-> old.counts]
  BY <1>2, <1>3 DEF Locals
<1>6. local \in Locals
  BY <1>4, <1>5 DEF Locals, Stages
<1>7. LocalCounted(local) /\ LocalDone(local)
  BY <1>1, <1>2, <1>5, <1>6, MovesOn
<1>8. Becomes(p, local) /\ UNCHANGED <<lines, identities, batch>>
  BY <1>1, <1>3 DEF Takes, Local
<1> QED
  BY <1>7, <1>8, QuietCounted

LEMMA RefusesCounted ==
    ASSUME Invariants, Counted, NEW p \in Importers, NEW n \in DOMAIN lines, Refuses(p, n)
    PROVE  Counted'
<1>1. PICK old \in Locals : old = importers[p] /\ LocalCounted(old) /\ lines \in Files
  BY CountedFacts
<1>2. PICK count : count = IF lines[n].id = None THEN old.unledgered + 1 ELSE old.unledgered
  OBVIOUS
<1>3. PICK local : local = [old EXCEPT !.last = n, !.unledgered = count]
  OBVIOUS
<1>4. /\ old.stage = "reading" /\ n = old.last + 1 /\ ~Selected(old.scope, n)
      /\ lines[n].kind \in {"refused", "unmapped"}
  BY <1>1 DEF Refuses, Reads, At, Local, Selected
<1>5. n \in Nat /\ count \in Nat
  BY <1>1, <1>2, LinesFacts DEF Locals
<1>6. /\ local \in Locals /\ local.stage = "reading" /\ local.scopes = old.scopes
      /\ local.chunk = old.chunk /\ local.scope = old.scope /\ local.last = n
      /\ local.selected = old.selected /\ local.unledgered = count
  BY <1>3, <1>4, <1>5 DEF Locals
<1>7. lines[n].id = None => lines[n].kind = "refused"
  BY <1>1, LinesFacts
<1>8. LocalCounted(local) /\ LocalDone(local)
  BY <1>1, <1>2, <1>4, <1>6, <1>7, MovesOn
<1>9. Becomes(p, local) /\ lines' = lines
  BY <1>1, <1>2, <1>3 DEF Refuses, Local
<1>10. CASE ~(lines[n].id # None /\ IdentityOf(n) = "none")
  BY <1>8, <1>9, <1>10, QuietCounted DEF Refuses
<1>11. CASE lines[n].id # None /\ IdentityOf(n) = "none"
  <2>1. /\ identities' = [identities EXCEPT ![lines[n].id] = "rejected"]
        /\ batch' = [batch EXCEPT !.rejected = @ + 1]
    BY <1>11 DEF Refuses
  <2>2. Types /\ Sources /\ BatchCounted
    BY DEF Invariants, Counted
  <2>3. PICK key \in Ids : key = lines[n].id /\ identities[key] = "none"
    BY <1>1, <1>11, LinesFacts DEF IdentityOf
  <2>4. \A id \in Ids : identities'[id] = IF id = key THEN "rejected" ELSE identities[id]
    BY <2>1, <2>2, <2>3 DEF Types
  <2>5. Settles
    BY <2>3, <2>4 DEF Settles
  <2>6. Sources'
    <3>1. /\ LinesOf({"good"})' = LinesOf({"good"})
          /\ LinesOf({"refused", "unmapped"})' = LinesOf({"refused", "unmapped"})
      BY <1>9, SameExport
    <3>2. n \in LinesOf({"refused", "unmapped"})
      BY <1>4 DEF LinesOf
    <3> QED
      BY <1>9, <2>2, <2>3, <2>4, <3>1, <3>2 DEF Sources
  <2>7. Of("rejected")' = Of("rejected") \cup {key} /\ key \notin Of("rejected")
        /\ Of("imported")' = Of("imported")
    BY <2>3, <2>4 DEF Of
  <2>8. Count("imported")' = Count("imported") /\ Count("rejected")' = Count("rejected") + 1
        /\ Count("rejected") \in Nat
    <3>1. IsFiniteSet(Of("rejected")) /\ Cardinality(Of("rejected")) \in Nat
      BY LedgerFinite DEF Count, Of
    <3>2. Cardinality(Of("rejected") \cup {key}) = Cardinality(Of("rejected")) + 1
      BY <2>7, <3>1, FS_AddElement
    <3>3. /\ Count("rejected") = Cardinality(Of("rejected"))
          /\ Count("rejected")' = Cardinality(Of("rejected")')
          /\ Count("imported") = Cardinality(Of("imported"))
          /\ Count("imported")' = Cardinality(Of("imported")')
      BY DEF Count, Of
    <3> QED
      BY <2>7, <3>1, <3>2, <3>3
  <2>9. /\ batch'.scopes = batch.scopes /\ batch'.status = batch.status
        /\ batch'.imported = batch.imported /\ batch'.rejected = batch.rejected + 1
    BY <2>1, <2>2 DEF Types
  <2>10. PICK scopes : scopes = batch.scopes
    OBVIOUS
  <2>11. ScopesCounted(scopes)'
    BY <1>9, <2>2, <2>10, ScopesCountedStay DEF BatchCounted
  <2>12. Cardinality(Keyless(Size))' = Cardinality(Keyless(Size)) /\ Cardinality(Keyless(Size)) \in Nat
    BY <1>1, <1>9, CountedSets DEF Keyless, Size
  <2>13. AllThere => AllThere'
    BY <1>9, <2>2, <2>5, AllThereStays
  <2>14. BatchCounted'
    BY <2>2, <2>8, <2>9, <2>10, <2>11, <2>12, <2>13 DEF BatchCounted
  <2>15. LocalDone(local)'
    BY <1>8, <1>9, <2>2, <2>5, LocalDoneStays
  <2> QED
    BY <1>8, <1>9, <2>5, <2>6, <2>14, <2>15, StepCounted
<1> QED
  BY <1>10, <1>11

\* The rows a chunk adds are as many as its lines that had none: no two lines of it
\* share a key.
LEMMA ChunkRows ==
    ASSUME lines \in Files, NEW new \in SUBSET DOMAIN lines, \A n \in new : lines[n].kind = "good",
           NEW keys, keys = {lines[n].id : n \in new}
    PROVE  IsFiniteSet(keys) /\ Cardinality(keys) = Cardinality(new)
<1>1. IsFiniteSet(new)
  BY LinesFacts, FS_Subset
<1>2. PICK g : g = [n \in new |-> lines[n].id]
  OBVIOUS
<1>3. g \in [new -> keys] /\ \A key \in keys : \E n \in new : g[n] = key
  BY <1>2
<1>4. \A m, n \in new : g[m] = g[n] => m = n
  BY <1>2, LinesFacts
<1>5. g \in Surjection(new, keys)
  BY <1>3 DEF Surjection
<1>6. g \in Injection(new, keys)
  BY <1>3, <1>4 DEF Injection, IsInjective
<1> QED
  BY <1>1, <1>5, <1>6, FS_Surjection

\* A chunk adds to the ledger the rows that are new in it.
LEMMA FlushAdds ==
    ASSUME Invariants, Counted, NEW p \in Importers, Flush(p)
    PROVE  /\ Count("imported")' = Count("imported") + Cardinality(New(p))
           /\ Count("rejected")' = Count("rejected")
           /\ Count("imported") \in Nat /\ Cardinality(New(p)) \in Nat
<1>1. PICK old \in Locals : old = importers[p] /\ LocalCounted(old) /\ lines \in Files
  BY CountedFacts
<1>2. \A n \in old.chunk : n \in DOMAIN lines /\ lines[n].kind = "good" /\ lines[n].id \in Ids
  BY <1>1, LinesFacts DEF Flush, At, LocalCounted, Reading, Selected, Locals
<1>3. identities' = [id \in Ids |-> IF \E n \in old.chunk : lines[n].id = id
                                    THEN "imported" ELSE identities[id]]
  BY <1>1 DEF Flush, Writes, Local
<1>4. \A n \in old.chunk : identities[lines[n].id] \in {"none", "imported"}
  BY <1>1 DEF Flush, Conflict, IdentityOf, Local
<1>5. PICK keys : keys = {lines[n].id : n \in New(p)}
  OBVIOUS
<1>6. New(p) = {n \in old.chunk : identities[lines[n].id] = "none"}
  BY <1>1 DEF New, IdentityOf, Local
<1>7. New(p) \in SUBSET DOMAIN lines /\ \A n \in New(p) : lines[n].kind = "good"
  BY <1>2, <1>6
<1>8. IsFiniteSet(keys) /\ Cardinality(keys) = Cardinality(New(p))
  BY <1>1, <1>5, <1>7, ChunkRows
<1>9. Of("imported")' = Of("imported") \cup keys
  BY <1>2, <1>3, <1>4, <1>5, <1>6 DEF Of
<1>10. Of("imported") \cap keys = {}
  BY <1>5, <1>6 DEF Of
<1>11. Of("rejected")' = Of("rejected")
  BY <1>3, <1>4 DEF Of
<1>12. IsFiniteSet(Of("imported")) /\ Cardinality(Of("imported")) \in Nat
  BY LedgerFinite DEF Count, Of
<1>13. Cardinality({}) = 0 /\ Cardinality(keys) \in Nat
  BY <1>8, FS_EmptySet, FS_CardinalityType
<1>14. Cardinality(Of("imported") \cup keys) = Cardinality(Of("imported")) + Cardinality(keys)
  <2>1. PICK before : before = Of("imported")
    OBVIOUS
  <2>2. Cardinality(before \cup keys)
           = Cardinality(before) + Cardinality(keys) - Cardinality(before \cap keys)
    BY <1>8, <1>12, <2>1, FS_Union
  <2>3. Cardinality(before \cap keys) = 0
    BY <1>10, <1>13, <2>1
  <2> QED
    BY <1>12, <1>13, <2>1, <2>2, <2>3
<1>15. /\ Count("rejected") = Cardinality(Of("rejected"))
       /\ Count("rejected")' = Cardinality(Of("rejected")')
       /\ Count("imported") = Cardinality(Of("imported"))
       /\ Count("imported")' = Cardinality(Of("imported")')
  BY DEF Count, Of
<1> QED
  BY <1>8, <1>9, <1>11, <1>12, <1>13, <1>14, <1>15

LEMMA FlushCounted ==
    ASSUME Invariants, Counted, NEW p \in Importers, Flush(p)
    PROVE  Counted'
<1>1. PICK old \in Locals : /\ old = importers[p] /\ LocalCounted(old) /\ Position(old)
                            /\ lines \in Files
  BY CountedFacts
<1>2. PICK stage \in {"written", "closing"} :
        stage = IF ChunkFull(p) THEN "written" ELSE "closing"
  OBVIOUS
<1>3. PICK local : local = [old EXCEPT !.chunk = {}, !.stage = stage]
  OBVIOUS
<1>4. /\ local.stage = stage /\ local.scope = old.scope /\ local.last = old.last
      /\ local.chunk = {} /\ local.scopes = old.scopes
      /\ local.selected = old.selected /\ local.unledgered = old.unledgered
  BY <1>3 DEF Locals
<1>5. Types /\ Sources /\ BatchCounted /\ lines' = lines
  BY DEF Invariants, Counted, Flush
<1>6. old.stage = "reading" /\ (stage = "closing" => AtEnd(p))
  BY <1>1, <1>2 DEF Flush, At
<1>7. \A n \in old.chunk : n \in DOMAIN lines /\ lines[n].kind = "good" /\ lines[n].id \in Ids
  BY <1>1, <1>6, LinesFacts DEF LocalCounted, Reading, Selected, Locals
<1>8. identities' = [id \in Ids |-> IF \E n \in old.chunk : lines[n].id = id
                                    THEN "imported" ELSE identities[id]]
  BY <1>1 DEF Flush, Writes, Local
<1>9. \A n \in old.chunk : identities[lines[n].id] \in {"none", "imported"}
  BY <1>1 DEF Flush, Conflict, IdentityOf, Local
<1>10. Settles
  BY <1>8, <1>9 DEF Settles
<1>11. Sources'
  <2>1. /\ LinesOf({"good"})' = LinesOf({"good"})
        /\ LinesOf({"refused", "unmapped"})' = LinesOf({"refused", "unmapped"})
    BY <1>5, SameExport
  <2>2. \A n \in old.chunk : n \in LinesOf({"good"})
    BY <1>7 DEF LinesOf
  <2> QED
    BY <1>5, <1>8, <2>1, <2>2 DEF Sources
<1>12. /\ Count("imported")' = Count("imported") + Cardinality(New(p))
       /\ Count("rejected")' = Count("rejected")
       /\ Count("imported") \in Nat /\ Cardinality(New(p)) \in Nat
  BY FlushAdds
<1>13. BatchCounted'
  <2>1. PICK new : new = Cardinality(New(p))
    OBVIOUS
  <2>2. batch' = [batch EXCEPT !.imported = batch.imported + new]
    BY <2>1 DEF Flush, Writes
  <2>3. /\ batch'.scopes = batch.scopes /\ batch'.status = batch.status
        /\ batch'.imported = batch.imported + new /\ batch'.rejected = batch.rejected
    BY <1>5, <2>2 DEF Types
  <2>4. PICK scopes : scopes = batch.scopes
    OBVIOUS
  <2>5. ScopesCounted(scopes)'
    BY <1>5, <2>4, ScopesCountedStay DEF BatchCounted
  <2>6. Cardinality(Keyless(Size))' = Cardinality(Keyless(Size))
    BY <1>5 DEF Keyless, Size
  <2>7. AllThere => AllThere'
    BY <1>5, <1>10, AllThereStays
  <2>8. batch'.imported \in Nat /\ batch'.imported <= Count("imported")'
    BY <1>5, <1>12, <2>1, <2>3 DEF BatchCounted
  <2>9. batch'.rejected \in Nat /\ batch'.rejected <= Count("rejected")' + Cardinality(Keyless(Size))'
    BY <1>5, <1>12, <2>3, <2>6 DEF BatchCounted
  <2> QED
    BY <1>5, <2>3, <2>4, <2>5, <2>7, <2>8, <2>9 DEF BatchCounted
<1>14. LocalCounted(local)
  <2>1. CheckpointCounted(local, local.scope) /\ ScopesCounted(local.scopes)
    BY <1>1, <1>4, <1>6 DEF LocalCounted, CheckpointCounted, Reading
  <2>2. ASSUME stage = "closing", old.scope = Full
        PROVE  \A n \in DOMAIN lines : n <= old.last
    <3>1. old.last + 1 \notin DOMAIN lines
      BY <1>1, <1>6, <2>2, ArchiveAssumption DEF AtEnd, SampleFull, Local
    <3>2. DOMAIN lines = 1..Size /\ Size \in Nat /\ old.last \in Nat
      BY <1>1, LinesFacts DEF Locals
    <3> QED
      BY <3>1, <3>2
  <2> QED
    BY <1>4, <2>1, <2>2 DEF LocalCounted
<1>15. LocalDone(local)'
  BY <1>4 DEF LocalDone
<1>16. Becomes(p, local)
  BY <1>1, <1>2, <1>3 DEF Flush, Local
<1> QED
  BY <1>5, <1>10, <1>11, <1>13, <1>14, <1>15, <1>16, StepCounted

LEMMA SaveProgressCounted ==
    ASSUME Invariants, Counted, NEW p \in Importers, SaveProgress(p)
    PROVE  Counted'
<1>1. PICK old \in Locals : old = importers[p] /\ LocalCounted(old) /\ Position(old)
  BY CountedFacts
<1>2. old.stage = "written" /\ old.scope \in Scopes
  BY <1>1 DEF SaveProgress, At, Position, Reading
<1>3. PICK progress : progress = [status |-> "running", last |-> old.last,
                                  selected |-> old.selected, unledgered |-> old.unledgered]
  OBVIOUS
<1>4. PICK scopes : scopes = [old.scopes EXCEPT ![old.scope] = progress]
  OBVIOUS
<1>5. ScopesCounted(scopes)
  <2>1. CheckpointCounted(progress, old.scope) /\ ScopesCounted(old.scopes)
    BY <1>1, <1>2, <1>3 DEF LocalCounted, CheckpointCounted, Reading
  <2>2. \A s \in Scopes : scopes[s] = IF s = old.scope THEN progress ELSE old.scopes[s]
    BY <1>4 DEF Locals
  <2> QED
    BY <2>1, <2>2 DEF ScopesCounted
<1>6. PICK local : local = [old EXCEPT !.scopes = scopes, !.stage = "reading"]
  OBVIOUS
<1>7. /\ local.stage = "reading" /\ local.scope = old.scope /\ local.last = old.last
      /\ local.chunk = old.chunk /\ local.scopes = scopes
      /\ local.selected = old.selected /\ local.unledgered = old.unledgered
  BY <1>6 DEF Locals
<1>8. LocalCounted(local)
  <2>1. CheckpointCounted(local, local.scope)
    BY <1>1, <1>2, <1>7 DEF LocalCounted, CheckpointCounted, Reading
  <2> QED
    BY <1>1, <1>2, <1>5, <1>7, <2>1 DEF LocalCounted, Reading
<1>9. LocalDone(local)
  BY <1>7 DEF LocalDone
<1>10. Updated(p, "running") = scopes
  BY <1>1, <1>3, <1>4 DEF Updated, Progress, Local
<1>11. Becomes(p, local) /\ UNCHANGED <<lines, identities>>
  BY <1>1, <1>6, <1>10 DEF SaveProgress, Local
<1>12. /\ batch'.scopes = scopes /\ batch'.imported = batch.imported
       /\ batch'.rejected = batch.rejected /\ batch'.status = batch.status
  BY <1>10 DEF SaveProgress, Invariants, Types
<1>13. /\ batch'.imported \in Nat /\ batch'.imported <= Count("imported") /\ batch'.rejected \in Nat
       /\ batch'.rejected <= Count("rejected") + Cardinality(Keyless(Size))
       /\ batch'.status = "completed" => AllThere
  BY <1>12 DEF Counted, BatchCounted
<1> QED
  BY <1>5, <1>8, <1>9, <1>11, <1>12, <1>13, BatchWritten

LEMMA CloseScopeCounted ==
    ASSUME Invariants, Counted, NEW p \in Importers, CloseScope(p)
    PROVE  Counted'
<1>1. PICK old \in Locals : /\ old = importers[p] /\ LocalCounted(old) /\ Position(old)
                            /\ lines \in Files
  BY CountedFacts
<1>2. old.stage = "closing" /\ old.scope \in Scopes /\ old.chunk = {}
  BY <1>1 DEF CloseScope, At, Position, Reading
<1>3. PICK progress : progress = [status |-> "completed", last |-> old.last,
                                  selected |-> old.selected, unledgered |-> old.unledgered]
  OBVIOUS
<1>4. PICK scopes : scopes = [old.scopes EXCEPT ![old.scope] = progress]
  OBVIOUS
<1>5. CheckpointCounted(old, old.scope) /\ ScopesCounted(old.scopes)
  BY <1>1, <1>2 DEF LocalCounted, Reading
<1>6. ScopesCounted(scopes)
  <2>1. CheckpointCounted(progress, old.scope)
    BY <1>3, <1>5 DEF CheckpointCounted
  <2>2. \A s \in Scopes : scopes[s] = IF s = old.scope THEN progress ELSE old.scopes[s]
    BY <1>4 DEF Locals
  <2> QED
    BY <1>5, <2>1, <2>2 DEF ScopesCounted
<1>7. PICK local : local = [Off EXCEPT !.stage = "counting", !.scope = old.scope,
                              !.selected = old.selected, !.unledgered = old.unledgered]
  OBVIOUS
<1>8. local = [stage |-> "counting", scope |-> old.scope, scopes |-> NoScopes, last |-> 0,
               selected |-> old.selected, unledgered |-> old.unledgered, chunk |-> {},
               counts |-> NoCounts]
  BY <1>7 DEF Off
<1>9. LocalCounted(local)
  <2>1. old.unledgered <= Cardinality(Keyless(Size))
    <3>1. old.unledgered <= Cardinality(Keyless(old.last)) /\ old.unledgered \in Nat
      BY <1>5 DEF CheckpointCounted, Locals
    <3>2. Cardinality(Keyless(old.last)) <= Cardinality(Keyless(Size))
      BY <1>1, WithinExport
    <3>3. Cardinality(Keyless(old.last)) \in Nat /\ Cardinality(Keyless(Size)) \in Nat
      BY <1>1, CountedSets
    <3> QED
      BY <3>1, <3>2, <3>3
  <2>2. ASSUME old.scope = Full
        PROVE  old.selected = Cardinality(LinesOf({"good"}))
    <3>1. \A n \in DOMAIN lines : n <= old.last
      BY <1>1, <1>2, <2>2 DEF LocalCounted
    <3>2. Passed(Full, old.last) = LinesOf({"good"})
      BY <1>1, <3>1, WholeExport
    <3> QED
      BY <1>5, <2>2, <3>2 DEF CheckpointCounted
  <2>3. ScopesCounted(NoScopes)
    BY DEF ScopesCounted, NoScopes
  <2> QED
    BY <1>8, <2>1, <2>2, <2>3 DEF LocalCounted, Reading
<1>10. LocalDone(local)
  <2> SUFFICES ASSUME old.scope = Full
               PROVE  AllImported
    BY <1>8 DEF LocalDone
  <2>1. \A n \in DOMAIN lines : n <= old.last
    BY <1>1, <1>2 DEF LocalCounted
  <2>2. Covers(Full, old.last, {})
    BY <1>1, <1>2 DEF Position, Reading
  <2>3. Passed(Full, old.last) = LinesOf({"good"})
    BY <1>1, <2>1, WholeExport
  <2>4. \A n \in LinesOf({"good"}) : n \in DOMAIN lines /\ n <= old.last /\ Selected(Full, n)
    BY <2>3 DEF Passed
  <2> QED
    BY <2>2, <2>4 DEF Covers, AllImported
<1>11. Updated(p, "completed") = scopes
  BY <1>1, <1>3, <1>4 DEF Updated, Progress, Local
<1>12. Becomes(p, local) /\ UNCHANGED <<lines, identities>>
  BY <1>1, <1>7 DEF CloseScope, Local
<1>13. /\ batch'.scopes = scopes /\ batch'.imported = batch.imported
       /\ batch'.rejected = batch.rejected /\ batch'.status = batch.status
  BY <1>11 DEF CloseScope, Invariants, Types
<1>14. /\ batch'.imported \in Nat /\ batch'.imported <= Count("imported") /\ batch'.rejected \in Nat
       /\ batch'.rejected <= Count("rejected") + Cardinality(Keyless(Size))
       /\ batch'.status = "completed" => AllThere
  BY <1>13 DEF Counted, BatchCounted
<1> QED
  BY <1>6, <1>9, <1>10, <1>12, <1>13, <1>14, BatchWritten

-------------------------------------------------------------------------------
(* The comparison with the manifest and the end of a batch.                *)

LEMMA TakeCountsCounted ==
    ASSUME Invariants, Counted, NEW p \in Importers, TakeCounts(p)
    PROVE  Counted'
<1>1. PICK old \in Locals : /\ old = importers[p] /\ LocalCounted(old) /\ LocalDone(old)
                            /\ lines \in Files
  BY CountedFacts
<1>2. old.stage = "counting" /\ UNCHANGED <<lines, identities, batch>>
  BY <1>1 DEF TakeCounts, At
<1>3. PICK counts : counts = [imported |-> Count("imported"),
                              rejected |-> Count("rejected") + old.unledgered]
  OBVIOUS
<1>4. PICK local : local = [old EXCEPT !.stage = "reconciling", !.counts = counts]
  OBVIOUS
<1>5. /\ local.stage = "reconciling" /\ local.scope = old.scope /\ local.scopes = old.scopes
      /\ local.selected = old.selected /\ local.unledgered = old.unledgered
      /\ local.counts = counts
  BY <1>4 DEF Locals
<1>6. /\ counts.imported \in Nat /\ counts.imported <= Count("imported")
      /\ counts.rejected \in Nat
      /\ counts.rejected <= Count("rejected") + Cardinality(Keyless(Size))
  <2>1. Count("imported") \in Nat /\ Count("rejected") \in Nat
    BY LedgerFinite
  <2>2. old.unledgered \in Nat /\ old.unledgered <= Cardinality(Keyless(Size))
    BY <1>1, <1>2 DEF LocalCounted, Locals
  <2>3. Cardinality(Keyless(Size)) \in Nat
    BY <1>1, CountedSets
  <2> QED
    BY <1>3, <2>1, <2>2, <2>3
<1>7. LocalCounted(local)
  BY <1>1, <1>2, <1>5 DEF LocalCounted, Reading
<1>8. LocalDone(local)
  BY <1>1, <1>2, <1>5, <1>6 DEF LocalDone
<1>9. Becomes(p, local)
  BY <1>1, <1>3, <1>4 DEF TakeCounts, Local
<1> QED
  BY <1>2, <1>7, <1>8, <1>9, QuietCounted

LEMMA ReconcileCounted ==
    ASSUME Invariants, Counted, NEW p \in Importers, Reconcile(p)
    PROVE  Counted'
<1>1. PICK old \in Locals : old = importers[p] /\ LocalCounted(old) /\ LocalDone(old)
  BY CountedFacts
<1>2. old.stage = "reconciling" /\ UNCHANGED <<lines, identities>>
  BY <1>1 DEF Reconcile, At
<1>3. PICK scopes : scopes = batch.scopes
  OBVIOUS
<1>4. /\ batch'.scopes = scopes /\ batch'.status = batch.status
      /\ batch'.imported = old.counts.imported
      /\ batch'.rejected = old.counts.rejected
  <2>1. batch' = [batch EXCEPT !.imported = old.counts.imported,
                               !.rejected = old.counts.rejected]
    BY <1>1 DEF Reconcile, Local
  <2> QED
    BY <1>3, <2>1 DEF Invariants, Types
<1>5. ScopesCounted(scopes) /\ (batch'.status = "completed" => AllThere)
  BY <1>3, <1>4 DEF Counted, BatchCounted
<1>6. /\ batch'.imported \in Nat /\ batch'.imported <= Count("imported")
      /\ batch'.rejected \in Nat
      /\ batch'.rejected <= Count("rejected") + Cardinality(Keyless(Size))
  BY <1>1, <1>2, <1>4 DEF LocalDone
<1>7. CASE old.scope = Full
  <2>1. PICK local : local = [old EXCEPT !.stage = "verifying", !.counts = NoCounts]
    OBVIOUS
  <2>2. /\ local.stage = "verifying" /\ local.scope = Full /\ local.scopes = old.scopes
        /\ local.selected = old.selected /\ local.unledgered = old.unledgered
    BY <1>7, <2>1 DEF Locals
  <2>3. LocalCounted(local) /\ LocalDone(local)
    BY <1>1, <1>2, <1>7, <2>2 DEF LocalCounted, LocalDone, Reading
  <2>4. Becomes(p, local)
    BY <1>1, <1>7, <2>1 DEF Reconcile, Local
  <2> QED
    BY <1>2, <1>4, <1>5, <1>6, <2>3, <2>4, BatchWritten
<1>8. CASE old.scope # Full
  <2>1. Off = [Off EXCEPT !.stage = "off"]
    BY DEF Off
  <2>2. LocalCounted(Off) /\ LocalDone(Off)
    BY <2>1, OffCounted, StopCounted
  <2>3. Becomes(p, Off)
    BY <1>1, <1>8 DEF Reconcile, Stops, Local
  <2> QED
    BY <1>2, <1>4, <1>5, <1>6, <2>2, <2>3, BatchWritten
<1> QED
  BY <1>7, <1>8

\* The counts agree with the manifest only if the rows are all there.
LEMMA ManifestMeansAll ==
    ASSUME Types, Sources, BatchCounted, AllImported,
           Cardinality(LinesOf({"good"})) = Eligible, batch.rejected = Rejected
    PROVE  AllThere
<1>1. lines \in Files
  BY DEF Types
<1>2. /\ IsFiniteSet(LinesOf({"good", "unmapped"})) /\ LinesOf({"good", "unmapped"}) = LinesOf({"good"})
  <2>1. /\ LinesOf({"good", "unmapped"}) \in SUBSET DOMAIN lines
        /\ LinesOf({"good"}) \in SUBSET LinesOf({"good", "unmapped"})
    BY DEF LinesOf
  <2>2. IsFiniteSet(LinesOf({"good", "unmapped"}))
    BY <1>1, <2>1, LinesFacts, FS_Subset
  <2> QED
    BY <2>1, <2>2, FS_Subset DEF Eligible
<1>3. \A n \in DOMAIN lines : lines[n].kind # "unmapped"
  BY <1>2 DEF LinesOf
<1>4. PICK keyed : keyed = {n \in LinesOf({"refused"}) : lines[n].id # None}
  OBVIOUS
<1>5. /\ IsFiniteSet(keyed) /\ Cardinality(keyed) \in Nat
      /\ Rejected = Cardinality(keyed) + Cardinality(Keyless(Size))
      /\ Cardinality(Keyless(Size)) \in Nat
  <2>1. LinesOf({"refused"}) = keyed \cup Keyless(Size) /\ keyed \cap Keyless(Size) = {}
    BY <1>1, <1>4, LinesFacts DEF LinesOf, Keyless
  <2>2. IsFiniteSet(Keyless(Size)) /\ Cardinality(Keyless(Size)) \in Nat
    BY <1>1, CountedSets
  <2>3. IsFiniteSet(keyed) /\ Cardinality(keyed) \in Nat
    <3>1. keyed \in SUBSET DOMAIN lines
      BY <1>4 DEF LinesOf
    <3> QED
      BY <1>1, <3>1, LinesFacts, FS_Subset, FS_CardinalityType
  <2>4. PICK keyless : keyless = Keyless(Size)
    OBVIOUS
  <2>5. Cardinality(keyed \cup keyless)
           = Cardinality(keyed) + Cardinality(keyless) - Cardinality(keyed \cap keyless)
    BY <2>2, <2>3, <2>4, FS_Union
  <2>6. Cardinality(keyed \cap keyless) = 0
    BY <2>1, <2>4, FS_EmptySet
  <2>7. Rejected = Cardinality(keyed \cup keyless)
    BY <2>1, <2>4 DEF Rejected
  <2>8. Cardinality(keyed \cup keyless) = Cardinality(keyed) + Cardinality(keyless)
    BY <2>2, <2>3, <2>4, <2>5, <2>6
  <2> QED
    BY <2>2, <2>3, <2>4, <2>7, <2>8
<1>6. Cardinality(keyed) <= Count("rejected") /\ Count("rejected") \in Nat
  BY <1>5, LedgerFinite DEF BatchCounted
<1>7. PICK f : f = [n \in DOMAIN lines |-> lines[n].id]
  OBVIOUS
<1>8. \A id \in Of("rejected") : \E n \in keyed : f[n] = id
  <2> SUFFICES ASSUME NEW id \in Ids, identities[id] = "rejected"
               PROVE  \E n \in keyed : f[n] = id
    BY DEF Of
  <2>1. PICK n \in LinesOf({"refused", "unmapped"}) : lines[n].id = id
    BY DEF Sources
  <2>2. n \in DOMAIN lines /\ lines[n].kind = "refused"
    BY <1>3, <2>1 DEF LinesOf
  <2>3. lines[n].id # None
    BY <1>1, <2>1, LinesFacts
  <2>4. n \in keyed /\ f[n] = id
    BY <1>4, <1>7, <2>1, <2>2, <2>3 DEF LinesOf
  <2> QED
    BY <2>4
<1>9. /\ Cardinality(Of("rejected")) <= Cardinality(keyed)
      /\ Cardinality(Of("rejected")) = Cardinality(keyed) => \A n \in keyed : f[n] \in Of("rejected")
  BY <1>5, <1>8, OneForEach
<1>10. Count("rejected") = Cardinality(Of("rejected"))
  BY DEF Count, Of
<1>11. \A n \in keyed : f[n] \in Of("rejected")
  BY <1>5, <1>6, <1>9, <1>10
<1>12. \A n \in DOMAIN lines : (lines[n].kind = "refused" /\ lines[n].id # None) => IdentityOf(n) = "rejected"
  BY <1>4, <1>7, <1>11 DEF LinesOf, Of, IdentityOf
<1>13. \A n \in DOMAIN lines : lines[n].kind \in {"good", "unmapped"} => IdentityOf(n) = "imported"
  BY <1>3 DEF AllImported, LinesOf
<1> QED
  BY <1>12, <1>13 DEF AllThere

LEMMA VerifyCounted ==
    ASSUME Invariants, Counted, NEW p \in Importers, Verify(p)
    PROVE  Counted'
<1>1. PICK old \in Locals : old = importers[p] /\ LocalCounted(old) /\ LocalDone(old)
  BY CountedFacts
<1>2. old.stage = "verifying" /\ UNCHANGED <<lines, identities, batch>>
  BY <1>1 DEF Verify, At
<1>3. CASE AsTheManifest(p)
  <2>1. old.scope = Full /\ AllImported /\ old.selected = Cardinality(LinesOf({"good"}))
    BY <1>1, <1>2 DEF LocalCounted, LocalDone
  <2>2. old.selected = Eligible /\ batch.rejected = Rejected
    BY <1>1, <1>3 DEF AsTheManifest, Local
  <2>3. AllThere
    BY <2>1, <2>2, ManifestMeansAll DEF Invariants, Counted
  <2>4. PICK local : local = [Off EXCEPT !.stage = "completing"]
    OBVIOUS
  <2>5. LocalCounted(local)
    BY <2>4, OffCounted
  <2>6. LocalDone(local)
    BY <2>3, <2>4 DEF LocalDone, Off
  <2>7. Becomes(p, local)
    BY <1>3, <2>4 DEF Verify
  <2> QED
    BY <1>2, <2>5, <2>6, <2>7, QuietCounted
<1>4. CASE ~AsTheManifest(p)
  <2>1. PICK local : local = [Off EXCEPT !.stage = "failing"]
    OBVIOUS
  <2>2. LocalCounted(local) /\ LocalDone(local)
    BY <2>1, OffCounted, StopCounted
  <2>3. Becomes(p, local)
    BY <1>4, <2>1 DEF Verify, Raises
  <2> QED
    BY <1>2, <2>2, <2>3, QuietCounted
<1> QED
  BY <1>3, <1>4

LEMMA EndsCounted ==
    ASSUME Invariants, Counted, NEW p \in Importers, CompleteBatch(p) \/ Fail(p)
    PROVE  Counted'
<1>1. PICK old \in Locals : old = importers[p] /\ LocalDone(old)
  BY CountedFacts
<1>2. UNCHANGED <<lines, identities>>
  BY DEF CompleteBatch, Fail
<1>3. PICK stage \in {"off", "analyzing"} : Becomes(p, [Off EXCEPT !.stage = stage])
  <2>1. Off = [Off EXCEPT !.stage = "off"]
    BY DEF Off
  <2> QED
    BY <2>1 DEF CompleteBatch, Fail, Stops
<1>4. PICK local : local = [Off EXCEPT !.stage = stage]
  OBVIOUS
<1>5. Becomes(p, local) /\ LocalCounted(local) /\ LocalDone(local)
  BY <1>3, <1>4, OffCounted, StopCounted
<1>6. PICK status : /\ batch' = [batch EXCEPT !.status = status]
                    /\ status = "completed" => CompleteBatch(p)
  BY DEF CompleteBatch, Fail
<1>7. PICK scopes : scopes = batch.scopes
  OBVIOUS
<1>8. /\ batch'.scopes = scopes /\ batch'.imported = batch.imported
      /\ batch'.rejected = batch.rejected /\ batch'.status = status
  BY <1>6, <1>7 DEF Invariants, Types
<1>9. status = "completed" => AllThere
  BY <1>1, <1>6 DEF LocalDone, CompleteBatch, At
<1>10. /\ batch'.imported \in Nat /\ batch'.imported <= Count("imported") /\ batch'.rejected \in Nat
       /\ batch'.rejected <= Count("rejected") + Cardinality(Keyless(Size))
       /\ ScopesCounted(scopes)
  BY <1>7, <1>8 DEF Counted, BatchCounted
<1> QED
  BY <1>2, <1>5, <1>8, <1>9, <1>10, BatchWritten

LEMMA GivesUpCounted ==
    ASSUME Invariants, Counted, NEW p \in Importers,
           Analyze(p) \/ FlushFails(p) \/ StatementFails(p) \/ Killed(p)
    PROVE  Counted'
<1>1. UNCHANGED <<lines, identities, batch>>
  BY DEF Analyze, FlushFails, StatementFails, Killed
<1>2. Off = [Off EXCEPT !.stage = "off"]
  BY DEF Off
<1>3. PICK stage \in {"off", "failing"} : Becomes(p, [Off EXCEPT !.stage = stage])
  BY <1>2 DEF Analyze, FlushFails, StatementFails, Killed, Stops, Raises
<1>4. PICK local : local = [Off EXCEPT !.stage = stage]
  OBVIOUS
<1>5. LocalCounted(local) /\ LocalDone(local)
  BY <1>4, OffCounted, StopCounted
<1> QED
  BY <1>1, <1>3, <1>4, <1>5, QuietCounted

-------------------------------------------------------------------------------

LEMMA InitCounted ==
    ASSUME Init
    PROVE  Counted
<1>1. lines \in Files /\ \A id \in Ids : identities[id] \in {"foreign", "none"}
  BY DEF Init
<1>2. Sources
  BY <1>1 DEF Sources
<1>3. Off = [Off EXCEPT !.stage = "off"]
  BY DEF Off
<1>4. LocalCounted(Off) /\ LocalDone(Off)
  BY <1>3, OffCounted, StopCounted
<1>5. Of("imported") = {} /\ Of("rejected") = {}
  BY <1>1 DEF Of
<1>6. Count("imported") = 0 /\ Count("rejected") = 0
  BY <1>5, FS_EmptySet DEF Of, Count
<1>7. /\ batch.imported = 0 /\ batch.rejected = 0 /\ batch.status = "none"
      /\ batch.scopes = NoScopes
  BY DEF Init, NoBatch
<1>8. ScopesCounted(batch.scopes)
  BY <1>7 DEF ScopesCounted, NoScopes
<1>9. BatchCounted
  BY <1>1, <1>6, <1>7, <1>8, CountedSets DEF BatchCounted
<1> QED
  BY <1>2, <1>4, <1>9 DEF Init, Counted

LEMMA NextCounted ==
    ASSUME Invariants, Counted, [Next]_vars
    PROVE  Counted'
<1>1. CASE UNCHANGED vars
  <2>1. UNCHANGED <<lines, identities, batch>> /\ Types
    BY <1>1 DEF vars, Invariants
  <2>2. CASE Importers = {}
    <3>1. BatchCounted'
      <4>1. PICK scopes : scopes = batch.scopes
        OBVIOUS
      <4>2. ScopesCounted(scopes)'
        BY <2>1, <4>1, ScopesCountedStay DEF Counted, BatchCounted
      <4> QED
        BY <2>1, <4>1, <4>2, RowsKept DEF Counted, BatchCounted
    <3> QED
      BY <2>1, <2>2, <3>1, RowsKept DEF Counted
  <2>3. ASSUME NEW p \in Importers
        PROVE  Counted'
    <3>1. PICK local : local = importers[p]
      OBVIOUS
    <3>2. LocalCounted(local) /\ LocalDone(local)
      BY <3>1, CountedFacts
    <3>3. Becomes(p, local)
      BY <1>1, <2>1, <3>1 DEF vars, Becomes, Types
    <3> QED
      BY <2>1, <3>2, <3>3, QuietCounted
  <2> QED
    BY <2>2, <2>3
<1>2. CASE Next
  <2>1. PICK p \in Importers : \/ \E scope \in Scopes : Open(p, scope)
                               \/ Import(p) \/ StatementFails(p) \/ Killed(p)
    BY <1>2 DEF Next
  <2>2. CASE \E scope \in Scopes : Open(p, scope)
    BY <2>2, OpenCounted
  <2>3. CASE Import(p)
    BY <2>3, MarkRunningCounted, SkipsCounted, TakesCounted, RefusesCounted, FlushCounted,
       SaveProgressCounted, CloseScopeCounted, TakeCountsCounted, ReconcileCounted,
       VerifyCounted, EndsCounted, GivesUpCounted DEF Import
  <2>4. CASE StatementFails(p) \/ Killed(p)
    BY <2>4, GivesUpCounted
  <2> QED
    BY <2>1, <2>2, <2>3, <2>4
<1> QED
  BY <1>1, <1>2

\* Every reachable state counts what is there.
THEOREM CountedInvariant == Spec => [](Invariants /\ Counted)
<1>1. Init => Invariants /\ Counted
  BY InitSafe, InitCounted
<1>2. (Invariants /\ Counted) /\ [Next]_vars => (Invariants /\ Counted)'
  BY NextSafe, NextCounted
<1> QED
  BY <1>1, <1>2, PTL DEF Spec

\* A batch counts no identity twice, however often a chunk is written again and however
\* late a count is written that was taken before, and a checkpoint counts each selected
\* line once (history_archive_import.py:629-668, 807-836, 922-943).
THEOREM CountsStayBehind == Spec => []CountsNeverAhead
<1>1. ASSUME lines \in Files
      PROVE  Keyless(Size) = KeylessRefusals
  BY <1>1, LinesFacts DEF Keyless, KeylessRefusals
<1>2. Invariants /\ Counted => CountsNeverAhead
  BY <1>1 DEF Invariants, Types, Counted, BatchCounted, ScopesCounted, CheckpointCounted, Passed,
              CountsNeverAhead
<1> QED
  BY <1>2, CountedInvariant, PTL

\* A completed batch is the whole export (history_archive_import.py:837-880).
THEOREM CompletedAlwaysMeansAll == Spec => []CompletedMeansAll
<1>1. Counted => CompletedMeansAll
  BY DEF Counted, BatchCounted, AllThere, CompletedMeansAll
<1> QED
  BY <1>1, CountedInvariant, PTL

-------------------------------------------------------------------------------
(* One process at a time: nothing comes between its count and its write.   *)

Exact ==
    /\ CountsExact
    /\ \A p \in Importers : importers[p].stage = "reconciling" =>
                              importers[p].counts.imported = Count("imported")

\* Where neither the rows nor what the batch counts of them change, and the process is
\* not about to write a count.
LEMMA ExactStays ==
    ASSUME Invariants, Exact, NEW P, Importers = {P}, NEW local, Becomes(P, local),
           local.stage # "reconciling", batch'.imported = batch.imported,
           \A id \in Ids : identities'[id] = "imported" <=> identities[id] = "imported"
    PROVE  Exact'
<1>1. importers'[P] = local
  BY DEF Becomes, Invariants, Types
<1>2. Of("imported")' = Of("imported")
  BY DEF Of
<1>3. Count("imported")' = Count("imported")
  BY <1>2 DEF Of, Count
<1> QED
  BY <1>1, <1>3 DEF Exact, CountsExact

LEMMA ExactStep ==
    ASSUME Invariants, Counted, Exact, NEW P, Importers = {P}, Next
    PROVE  Exact'
<1>1. PICK old \in Locals : old = importers[P]
  BY LocalFacts
<1>2. batch = [status |-> batch.status, imported |-> batch.imported,
               rejected |-> batch.rejected, scopes |-> batch.scopes]
  BY DEF Invariants, Types
<1>3. \/ \E scope \in Scopes : Open(P, scope)
      \/ Import(P) \/ StatementFails(P) \/ Killed(P)
  BY DEF Next
<1>4. CASE \E scope \in Scopes : Open(P, scope)
  <2>1. PICK scope \in Scopes : Open(P, scope)
    BY <1>4
  <2>2. UNCHANGED identities /\ batch'.imported = batch.imported
    BY <1>2, <2>1 DEF Open
  <2>3. CASE Prior(scope).status = "completed"
    <3>1. Becomes(P, old) /\ old.stage = "off"
      BY <1>1, <2>1, <2>3 DEF Open, Becomes, At, Invariants, Types
    <3> QED
      BY <2>2, <3>1, ExactStays
  <2>4. CASE Prior(scope).status # "completed"
    <3>1. PICK local : local = Resumed(scope, Prior(scope))
      OBVIOUS
    <3>2. local.stage = "opened"
      BY <3>1 DEF Resumed, Off
    <3>3. Becomes(P, local)
      BY <2>1, <2>4, <3>1 DEF Open
    <3> QED
      BY <2>2, <3>2, <3>3, ExactStays
  <2> QED
    BY <2>3, <2>4
<1>5. CASE \/ MarkRunning(P) \/ SaveProgress(P)
           \/ \E n \in DOMAIN lines : Skips(P, n) \/ Takes(P, n)
  <2>1. UNCHANGED identities /\ batch'.imported = batch.imported
    BY <1>2, <1>5 DEF MarkRunning, SaveProgress, Skips, Takes
  <2>2. PICK local : local.stage = "reading" /\ Becomes(P, local)
    <3>1. CASE MarkRunning(P)
      <4>1. PICK local : local = [old EXCEPT !.stage = "reading"]
        OBVIOUS
      <4> QED
        BY <1>1, <3>1, <4>1 DEF MarkRunning, Goes, Local, Locals
    <3>2. CASE SaveProgress(P)
      <4>1. PICK local : local = [old EXCEPT !.scopes = Updated(P, "running"), !.stage = "reading"]
        OBVIOUS
      <4> QED
        BY <1>1, <3>2, <4>1 DEF SaveProgress, Local, Locals
    <3>3. CASE \E n \in DOMAIN lines : Skips(P, n)
      <4>1. PICK n \in DOMAIN lines : Skips(P, n)
        BY <3>3
      <4>2. PICK local : local = [old EXCEPT !.last = n]
        OBVIOUS
      <4> QED
        BY <1>1, <4>1, <4>2 DEF Skips, Reads, At, Local, Locals
    <3>4. CASE \E n \in DOMAIN lines : Takes(P, n)
      <4>1. PICK n \in DOMAIN lines : Takes(P, n)
        BY <3>4
      <4>2. PICK local : local = [old EXCEPT !.last = n, !.selected = old.selected + 1,
                                             !.chunk = old.chunk \cup {n}]
        OBVIOUS
      <4> QED
        BY <1>1, <4>1, <4>2 DEF Takes, Reads, At, Local, Locals
    <3> QED
      BY <1>5, <3>1, <3>2, <3>3, <3>4
  <2> QED
    BY <2>1, <2>2, ExactStays
<1>6. CASE \E n \in DOMAIN lines : Refuses(P, n)
  <2>1. PICK n \in DOMAIN lines : Refuses(P, n)
    BY <1>6
  <2>2. batch'.imported = batch.imported
    BY <1>2, <2>1 DEF Refuses
  <2>3. \A id \in Ids : identities'[id] = "imported" <=> identities[id] = "imported"
    BY <2>1 DEF Refuses, IdentityOf, Invariants, Types
  <2>4. PICK local : local = [old EXCEPT !.last = n,
                         !.unledgered = IF lines[n].id = None THEN old.unledgered + 1
                                                              ELSE old.unledgered]
    OBVIOUS
  <2>5. local.stage = "reading" /\ Becomes(P, local)
    BY <1>1, <2>1, <2>4 DEF Refuses, Reads, At, Local, Locals
  <2> QED
    BY <2>2, <2>3, <2>5, ExactStays
<1>7. CASE Flush(P)
  <2>1. /\ Count("imported")' = Count("imported") + Cardinality(New(P))
        /\ batch'.imported = batch.imported + Cardinality(New(P))
    BY <1>2, <1>7, FlushAdds DEF Flush, Writes
  <2>2. importers'[P].stage \in {"written", "closing"}
    BY <1>7 DEF Flush, Becomes, Invariants, Types, Local, Locals
  <2> QED
    BY <2>1, <2>2 DEF Exact, CountsExact
<1>8. CASE CloseScope(P)
  <2>1. UNCHANGED identities /\ batch'.imported = batch.imported
    BY <1>2, <1>8 DEF CloseScope
  <2>2. PICK local : local = [Off EXCEPT !.stage = "counting", !.scope = old.scope,
                                !.selected = old.selected, !.unledgered = old.unledgered]
    OBVIOUS
  <2>3. local.stage = "counting" /\ Becomes(P, local)
    BY <1>1, <1>8, <2>2 DEF CloseScope, Local, Off
  <2> QED
    BY <2>1, <2>3, ExactStays
<1>9. CASE TakeCounts(P)
  <2>1. UNCHANGED <<identities, batch>> /\ importers'[P].counts.imported = Count("imported")
    BY <1>1, <1>9 DEF TakeCounts, Becomes, Invariants, Types, Local, Locals
  <2>2. Count("imported")' = Count("imported")
    BY <2>1 DEF Count
  <2> QED
    BY <2>1, <2>2 DEF Exact, CountsExact
<1>10. CASE Reconcile(P)
  <2>1. UNCHANGED identities /\ batch'.imported = old.counts.imported /\ old.stage = "reconciling"
    BY <1>1, <1>2, <1>10 DEF Reconcile, At, Local
  <2>2. importers'[P].stage \in {"verifying", "off"}
    <3>1. PICK local : local = [old EXCEPT !.stage = "verifying", !.counts = NoCounts]
      OBVIOUS
    <3>2. local.stage = "verifying" /\ Off.stage = "off"
      BY <3>1 DEF Locals, Off
    <3>3. Becomes(P, local) \/ Becomes(P, Off)
      BY <1>1, <1>10, <3>1 DEF Reconcile, Stops, Local
    <3> QED
      BY <3>2, <3>3 DEF Becomes, Invariants, Types
  <2>3. Count("imported")' = Count("imported")
    BY <2>1 DEF Count
  <2> QED
    BY <1>1, <2>1, <2>2, <2>3 DEF Exact, CountsExact
<1>11. CASE \/ FlushFails(P) \/ Verify(P) \/ CompleteBatch(P) \/ Analyze(P) \/ Fail(P)
            \/ StatementFails(P) \/ Killed(P)
  <2>1. UNCHANGED identities /\ batch'.imported = batch.imported
    BY <1>2, <1>11 DEF FlushFails, Verify, CompleteBatch, Analyze, Fail, StatementFails, Killed
  <2>2. Off = [Off EXCEPT !.stage = "off"]
    BY DEF Off
  <2>3. PICK stage \in {"off", "failing", "completing", "analyzing"} :
          Becomes(P, [Off EXCEPT !.stage = stage])
    BY <1>11, <2>2 DEF FlushFails, Verify, CompleteBatch, Analyze, Fail, StatementFails, Killed,
                       Stops, Raises
  <2>4. PICK local : local = [Off EXCEPT !.stage = stage]
    OBVIOUS
  <2>5. local.stage # "reconciling" /\ Becomes(P, local)
    BY <2>3, <2>4 DEF Off
  <2> QED
    BY <2>1, <2>5, ExactStays
<1> QED
  BY <1>3, <1>4, <1>5, <1>6, <1>7, <1>8, <1>9, <1>10, <1>11 DEF Import

\* When no second process is run beside it, the batch counts exactly the imported rows of
\* the ledger, whatever was killed or failed (history_archive_import.py:629-668, 922-943).
THEOREM CountsAlwaysExact ==
    ASSUME NEW P, Importers = {P}
    PROVE  Spec => []CountsExact
<1>1. Init => Exact
  <2> SUFFICES ASSUME Init
               PROVE  Exact
    OBVIOUS
  <2>1. Of("imported") = {}
    BY DEF Init, Of
  <2>2. Count("imported") = 0
    BY <2>1, FS_EmptySet DEF Of, Count
  <2> QED
    BY <2>2 DEF Init, NoBatch, Exact, CountsExact, Off
<1>2. Invariants /\ Counted /\ Exact /\ [Next]_vars => Exact'
  <2>1. CASE UNCHANGED vars
    BY <2>1 DEF vars, Exact, CountsExact, Count
  <2> QED
    BY <2>1, ExactStep
<1>3. Exact => CountsExact
  BY DEF Exact
<1> QED
  BY <1>1, <1>2, <1>3, CountedInvariant, PTL DEF Spec
===============================================================================
