----------------------------- MODULE Ipv6Format -----------------------------
(***************************************************************************)
(* format_ipv6() in src/ProtocolDissector.cpp.  Flows and all detectors    *)
(* know a source by this text, so it has to name one address.  The text is *)
(* a sequence of tokens: a group, ":" or "::".                             *)
(***************************************************************************)
EXTENDS Integers, Sequences

Group(n) == <<"group", n>>
Colon == <<":">>
Gap == <<"::">>

NoRun == [best_start |-> -1, best_len |-> 0, cur_start |-> -1, cur_len |-> 0]

\* One turn of the loop that looks for the longest run of zero groups, at group i.
next_run(r, i, group) ==
  LET start == IF r.cur_start = -1 THEN i ELSE r.cur_start
      n == r.cur_len + 1
      better == n > r.best_len
  IN IF group # 0
       THEN [r EXCEPT !.cur_start = -1, !.cur_len = 0]
       ELSE [best_start |-> IF better THEN start ELSE r.best_start,
             best_len |-> IF better THEN n ELSE r.best_len,
             cur_start |-> start,
             cur_len |-> n]

\* The state of the loop after the groups g[0..7].
zero_runs(g) ==
  LET s[i \in 0..8] == IF i = 0 THEN NoRun ELSE next_run(s[i - 1], i - 1, g[i - 1])
  IN s[8]

\* Mutant: the group after the gap is skipped.
after_gap_skipped(i, best_len) == i + best_len + 1

\* i += best_len
after_gap(i, best_len) == i + best_len

\* What the output loop writes for the groups from i to j - 1: ":" between them.
joined(g, i, j) ==
  [k \in 1..(2 * (j - i) - 1) |-> IF k % 2 = 1 THEN Group(g[i + k \div 2]) ELSE Colon]

\* A run of fewer than two groups is written out.
format_ipv6(g) ==
  LET r == zero_runs(g)
  IN IF r.best_len < 2 THEN joined(g, 0, 8)
     ELSE joined(g, 0, r.best_start) \o <<Gap>>
            \o joined(g, after_gap(r.best_start, r.best_len), 8)

-----------------------------------------------------------------------------
(* The address a text stands for: the groups before the gap, zeros, and the   *)
(* groups after it.                                                           *)

IsGroup(token) == token[1] = "group"

\* Every second token is a group, ":" stands between groups only, and there is one
\* "::" at most, which may also begin or end the text.
WellFormed(text) ==
  /\ \A k \in 1..(Len(text) - 1) : IsGroup(text[k]) # IsGroup(text[k + 1])
  /\ Colon \notin {text[1], text[Len(text)]}
  /\ \A p, q \in 1..Len(text) : text[p] = Gap /\ text[q] = Gap => p = q

\* A well-formed text names the address g: all its groups; or those of the left ones
\* before the gap at p and of the right ones after it, and zeros in between.
Names(text, g) ==
  \/ Len(text) = 15 /\ \A k \in 0..7 : text[2 * k + 1] = Group(g[k])
  \/ \E p \in 1..Len(text) :
       LET left == p \div 2
           right == (Len(text) - p + 1) \div 2
       IN /\ text[p] = Gap
          /\ left + right < 8
          /\ \A k \in 0..7 :
               IF k < left THEN text[2 * k + 1] = Group(g[k])
               ELSE IF k >= 8 - right THEN text[Len(text) - 2 * (7 - k)] = Group(g[k])
               ELSE g[k] = 0
=============================================================================
