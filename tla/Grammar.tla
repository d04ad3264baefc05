------------------------------ MODULE Grammar -------------------------------
(***************************************************************************)
(* The grammar model of src/grammar and its analysis: FIRST and FOLLOW     *)
(* sets, the check for LL(1) and the parse tables.  A name is a sequence:  *)
(* the parts a synthetic name is put together from.                        *)
(***************************************************************************)
EXTENDS Naturals, Sequences, FiniteSets, SequencesExt, TLC

VARIABLES
  gram,          \* the grammar: [entrypoint, rules, actions]
  gramPhase,     \* what is done with it: read, firsts, follows, check, built, parse, ended, aborted
  gramFirsts,    \* [nt, rule]: the FIRST sets of nonterminals and of rules, where they are known
  gramFollows,   \* nonterminal -> its FOLLOW set
  gramVisited,   \* the nonterminals this pass over the grammar has been at
  gramSum,       \* the sizes of the FOLLOW sets: [now, before]
  gramTable      \* nonterminal -> its parse table: token code -> rule

gramVars == <<gram, gramPhase, gramFirsts, gramFollows, gramVisited, gramSum, gramTable>>
analysis == <<gramFirsts, gramFollows, gramVisited, gramSum, gramTable>>

TokenCodeEmpty == "Empty"   TokenCodeEnd == "End"   CodeEOF == "EOF"
None == <<>>

EmptyGrammar == [entrypoint |-> None, rules |-> <<>>, actions |-> <<>>]
Terminal(code) == [terminal |-> TRUE, token |-> code, nt |-> None, actions |-> <<>>]
NonTerminal(name) == [terminal |-> FALSE, token |-> "", nt |-> name, actions |-> <<>>]
Rule(entries) == [entries |-> entries, actions |-> <<>>]

(* A name that is there already is not registered again.                   *)
nonterminal_create(g, name) ==
  IF name \in DOMAIN g.rules THEN g
  ELSE [entrypoint |-> IF g.entrypoint = None THEN name ELSE g.entrypoint,
        rules |-> (name :> <<>>) @@ g.rules, actions |-> (name :> <<>>) @@ g.actions]

rule_create(g, name, rule) == [g EXCEPT !.rules[name] = Append(@, rule)]

Names == DOMAIN gram.rules
Unvisited == Names \ gramVisited
-----------------------------------------------------------------------------
(* FIRST: each set is made before what it depends on is asked for, so that *)
(* a nonterminal that leads back to itself finds what is there by then.    *)
RECURSIVE _nonterminal_get_firsts(_, _), _rule_get_firsts(_, _, _)

_rule_entry_get_firsts(e, got) ==
  IF e.terminal THEN [got EXCEPT !.set = @ \cup {e.token}]
  ELSE IF e.nt \notin Names THEN [got EXCEPT !.memo.undefined = TRUE]
  ELSE LET memo == _nonterminal_get_firsts(e.nt, got.memo)
       IN [memo |-> memo, set |-> got.set \cup memo.nt[e.nt]]

_rule_get_firsts(name, i, memo) ==
  LET entry(got, e) ==
        IF TokenCodeEmpty \in got.set
        THEN _rule_entry_get_firsts(e, [got EXCEPT !.set = @ \ {TokenCodeEmpty}]) ELSE got
      all == FoldLeft(entry, [memo |-> memo, set |-> {TokenCodeEmpty}],
                      gram.rules[name][i].entries)
  IN [all.memo EXCEPT !.rule = (<<name, i>> :> all.set) @@ @]

_nonterminal_get_firsts(name, memo) ==
  LET union(m, i) ==
        LET r == _rule_get_firsts(name, i, m) IN [r EXCEPT !.nt[name] = @ \cup r.rule[<<name, i>>]]
      rules == [i \in DOMAIN gram.rules[name] |-> i]
      all == FoldLeft(union, [memo EXCEPT !.nt = (name :> {}) @@ @], rules)
  IN IF name \in DOMAIN memo.nt THEN memo
     ELSE IF all.nt[name] = {} THEN [all EXCEPT !.nt[name] = {TokenCodeEmpty}] ELSE all

GetFirsts ==
  /\ gramPhase = "firsts" /\ Unvisited # {}
  /\ \E name \in Unvisited :
       /\ gramFirsts' = _nonterminal_get_firsts(name, gramFirsts)
       /\ gramVisited' = gramVisited \cup {name}
       /\ gramPhase' = IF gramFirsts'.undefined THEN "aborted" ELSE "firsts"
  /\ UNCHANGED <<gram, gramFollows, gramSum, gramTable>>

FirstsDone ==
  /\ gramPhase = "firsts" /\ Unvisited = {}
  /\ gramPhase' = "follows" /\ gramVisited' = {} /\ gramSum' = [now |-> 0, before |-> 0]
  /\ gramFollows' = [name \in Names |-> IF name = gram.entrypoint THEN {TokenCodeEnd} ELSE {}]
  /\ UNCHANGED <<gram, gramFirsts, gramTable>>
-----------------------------------------------------------------------------
FirstsOf(e) == IF e.terminal THEN {e.token} ELSE gramFirsts.nt[e.nt]

\* Wrong: only what stands right behind it would follow a nonterminal.
OnlyTheNext(entries) == IF entries = <<>> THEN {TokenCodeEmpty} ELSE FirstsOf(Head(entries))

(* What may begin the rest of a rule.  The sets are put together in one    *)
(* set, where Empty stays once it is in, and so the search does not stop   *)
(* at an entry that cannot be empty any more.                              *)
NextFirsts(entries) ==
  LET next(got, e) == IF got = {} \/ TokenCodeEmpty \in got THEN got \cup FirstsOf(e) ELSE got
  IN IF entries = <<>> THEN {TokenCodeEmpty} ELSE FoldLeft(next, {}, entries)

_grammar_follows_reducer(name, follows) ==
  LET rest(entries, j) == SubSeq(entries, j + 1, Len(entries))
      behind(entries, f, j) ==
        LET next == NextFirsts(rest(entries, j))
        IN IF entries[j].terminal THEN f
           ELSE [f EXCEPT ![entries[j].nt] =
                   @ \cup (next \ {TokenCodeEmpty})
                     \cup IF TokenCodeEmpty \in next THEN f[name] ELSE {}]
      overEntries(f, rule) ==
        FoldLeft(LAMBDA g, j : behind(rule.entries, g, j), f, [j \in DOMAIN rule.entries |-> j])
  IN FoldLeft(overEntries, follows, gram.rules[name])

Undefined(name) ==
  \E i \in DOMAIN gram.rules[name] : \E j \in DOMAIN gram.rules[name][i].entries :
    LET e == gram.rules[name][i].entries[j] IN ~e.terminal /\ e.nt \notin Names

GetFollows ==
  /\ gramPhase = "follows" /\ Unvisited # {}
  /\ \E name \in Unvisited :
       IF Undefined(name)
       THEN gramPhase' = "aborted" /\ UNCHANGED <<gramFollows, gramVisited, gramSum>>
       ELSE /\ gramFollows' = _grammar_follows_reducer(name, gramFollows)
            /\ gramVisited' = gramVisited \cup {name}
            /\ gramSum' = [gramSum EXCEPT !.now = @ + Cardinality(gramFollows'[name])]
            /\ UNCHANGED gramPhase
  /\ UNCHANGED <<gram, gramFirsts, gramTable>>

\* Wrong: the sum of the last pass would not be kept.
SumForgotten ==
  /\ gramPhase = "follows" /\ Unvisited = {}
  /\ gramVisited' = {}
  /\ IF gramSum.now # gramSum.before
     THEN gramSum' = [now |-> 0, before |-> 0] /\ UNCHANGED gramPhase
     ELSE gramPhase' = "check" /\ UNCHANGED gramSum
  /\ UNCHANGED <<gram, gramFirsts, gramFollows, gramTable>>

(* Another pass, until the sum of the sizes stays what it was.             *)
PassDone ==
  /\ gramPhase = "follows" /\ Unvisited = {}
  /\ gramVisited' = {}
  /\ IF gramSum.now # gramSum.before
     THEN gramSum' = [now |-> 0, before |-> gramSum.now] /\ UNCHANGED gramPhase
     ELSE gramPhase' = "check" /\ UNCHANGED gramSum
  /\ UNCHANGED <<gram, gramFirsts, gramFollows, gramTable>>
-----------------------------------------------------------------------------
(* The rules of a nonterminal must begin with different tokens.  What      *)
(* follows a rule that may be empty is looked at only if End is among its  *)
(* FIRSTs, where it never is.                                              *)
_nonterminal_check_LL1(name) ==
  \A i, j \in DOMAIN gram.rules[name] :
    i < j => gramFirsts.rule[<<name, i>>] \cap gramFirsts.rule[<<name, j>>] = {}

(* The tokens that choose a rule; of two rules the first one has them.     *)
Chosen(name, i) ==
  LET firsts == gramFirsts.rule[<<name, i>>]
  IN (firsts \cup IF TokenCodeEmpty \in firsts THEN gramFollows[name] ELSE {}) \ {TokenCodeEmpty}

_nonterminal_build_parse_table(name) ==
  LET codes == UNION {Chosen(name, i) : i \in DOMAIN gram.rules[name]}
      first(code) == CHOOSE i \in DOMAIN gram.rules[name] :
        code \in Chosen(name, i) /\ \A j \in DOMAIN gram.rules[name] : code \in Chosen(name, j) => i <= j
  IN [code \in codes |-> first(code)]

CheckAndBuild ==
  /\ gramPhase = "check"
  /\ IF \A name \in Names : _nonterminal_check_LL1(name)
     THEN /\ gramTable' = [name \in Names |-> _nonterminal_build_parse_table(name)]
          /\ gramPhase' = "built"
     ELSE gramPhase' = "ended" /\ UNCHANGED gramTable
  /\ UNCHANGED <<gram, gramFirsts, gramFollows, gramVisited, gramSum>>

grammar_analyze == GetFirsts \/ FirstsDone \/ GetFollows \/ PassDone \/ CheckAndBuild

GrammarInit ==
  /\ gram = EmptyGrammar /\ gramPhase = "read"
  /\ gramFirsts = [nt |-> <<>>, rule |-> <<>>, undefined |-> FALSE]
  /\ gramFollows = <<>> /\ gramVisited = {} /\ gramSum = [now |-> 0, before |-> 0]
  /\ gramTable = <<>>
=============================================================================
