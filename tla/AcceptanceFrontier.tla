--------------------------- MODULE AcceptanceFrontier ---------------------------
(***************************************************************************)
(* The accepted moves of a position (lib/training/acceptanceFrontier.ts):   *)
(* a ranked list of engine lines is cut at a natural gap of the evaluation. *)
(* A line is its slot, its first move and what it loses against the best.   *)
(***************************************************************************)
EXTENDS Integers, Sequences, FiniteSetsExt

CONSTANTS NoFirstMove,   \* a line without a usable first move
          NoScore   \* a line whose loss cannot be computed

MinGap == 30
MaxExpansion == 40

\* A later line that repeats the move of an earlier one is skipped.
Repeats(lines, i) ==
  \E j \in 1..(i - 1) : lines[j].move = lines[i].move /\ lines[i].move # NoFirstMove

\* The losses ranked before line i.
Before(lines, i) == {lines[j].loss : j \in {k \in 1..(i - 1) : ~Repeats(lines, k)}}

\* A line that breaks the ranking: a gap in the slots, no move, no score, or a
\* smaller loss than a line before it.
Broken(lines, i) ==
  /\ ~Repeats(lines, i)
  /\ \/ lines[i].slot # i \/ lines[i].move = NoFirstMove \/ lines[i].loss = NoScore
     \/ \E l \in Before(lines, i) : lines[i].loss < l

\* The lines up to the first broken one, without the repeated ones.
Ranked(lines) ==
  LET broken == {i \in DOMAIN lines : Broken(lines, i)}
      sound == SubSeq(lines, 1, IF broken = {} THEN Len(lines) ELSE Min(broken) - 1)
      Keep(i) == ~Repeats(lines, i)
      kept == {i \in DOMAIN sound : Keep(i)}
  IN [n \in 1..Cardinality(kept) |->
        sound[CHOOSE i \in kept : Cardinality({j \in kept : j <= i}) = n]]

Frontier(status, moves, rejected) ==
  [status |-> status, moves |-> moves, rejected |-> rejected]

Tier(loss, policy) ==
  CASE loss <= policy.best -> "BEST" [] loss <= policy.strong -> "STRONG" [] OTHER -> "GOOD"

Accepted(ranked, n, policy) ==
  [i \in 1..n |-> [move |-> ranked[i].move, tier |-> Tier(ranked[i].loss, policy)]]

FirstOf(ranked, n) == IF n \in DOMAIN ranked THEN ranked[n].move ELSE NoFirstMove

\* A frontier that no gap closes holds the moves within the target.
OpenFrontier(status, ranked, policy) ==
  LET within == {i \in DOMAIN ranked : ranked[i].loss <= policy.success}
      n == Cardinality(within)
  IN Frontier(status, Accepted(ranked, n, policy), FirstOf(ranked, n + 1))

\* The accepted prefix grows from the target until a gap closes it.
FromMultiPv(lines, requested, exhausted, policy) ==
  LET ranked == Ranked(lines)
      n == Len(ranked)
      start == Max({1} \cup {i \in 1..n : ranked[i].loss <= policy.success})
      Gap(i) == ranked[i + 1].loss - ranked[i].loss
      gaps == {i \in start..(n - 1) : Gap(i) >= MinGap}
      tooFar == {i \in start..(n - 1) : ranked[i + 1].loss > policy.success + MaxExpansion}
      closes == Min(gaps \cup {n})
      ClosedAt(k) == Frontier("STABLE", Accepted(ranked, k, policy), FirstOf(ranked, k + 1))
  IN CASE \/ n = 0
          \/ \E i \in DOMAIN lines : Broken(lines, i) \/ Repeats(lines, i)
            -> OpenFrontier("UNSTABLE", ranked, policy)
       [] OTHER
            -> IF closes < n /\ \A i \in tooFar : closes <= i THEN ClosedAt(closes)
               ELSE IF tooFar = {} /\ exhausted /\ n < requested THEN ClosedAt(n)
               ELSE OpenFrontier("OPEN", ranked, policy)

\* Two searches confirm a frontier when both are stable and agree on its moves.
Confirm(first, second) ==
  IF first.status = "STABLE" /\ second.status = "STABLE" /\ first.moves = second.moves
  THEN second
  ELSE [second EXCEPT !.status = IF "UNSTABLE" \in {first.status, second.status}
                                 THEN "UNSTABLE" ELSE "OPEN"]
==============================================================================
