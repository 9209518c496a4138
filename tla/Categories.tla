----------------------------- MODULE Categories -----------------------------
(***************************************************************************)
(* Categories, the rules that place rows in them, and the run that places  *)
(* what has none (services/categorizer.py, routers/categories.py and the   *)
(* category handlers of routers/transactions.py), over the rows and splits *)
(* of SplitTruth.                                                          *)
(*                                                                         *)
(* A run holds no lock while it waits for the local model, so whatever the *)
(* user does then happens between what the run read and what it writes.    *)
(* Every other handler is a few queries and one commit, taken as one step. *)
(***************************************************************************)
EXTENDS SplitTruth

CONSTANTS
  Patterns,   \* what a rule may be stored under; wordings are patterns too
  Blank,      \* the pattern of a wording nothing is left of
  Core,       \* Core[d]: what _extract_pattern leaves of wording d
  Wordless,   \* the wordings without a word of three letters
  PartOf,   \* PartOf[p]: the wordings pattern p is a part of
  Overlaps,   \* Overlaps[p]: those with three quarters of p's words
  Keyword,    \* Keyword[d][s]: the category of d's keyword for sign s, or Null
  Offs,       \* by how much a form may miss the amount
  MaxHits,    \* bound on what is counted of a rule's hits
  MaxOps      \* bound on the requests of the user

ASSUME PatternAssumption ==
  /\ Descs \subseteq Patterns /\ Blank \notin Patterns /\ Wordless \subseteq Descs
  /\ Core \in [Descs -> Patterns \cup {Blank}]
  /\ PartOf \in [Patterns -> SUBSET Descs] /\ Overlaps \in [Patterns -> SUBSET Descs]
  /\ \A d \in Descs : d \in PartOf[d]
  /\ Keyword \in [Descs -> [{"in", "out"} -> Cats \cup {Null}]]
  /\ Offs \subseteq Int /\ MaxHits \in Nat \ {0} /\ MaxOps \in Nat

Rule == [pat : Patterns, cat : Cats, src : {"user", "llm"}, hits : 1 .. MaxHits]

VARIABLES
  cats,      \* the categories there are
  rules,     \* category_rules
  job,       \* the run under way: [asking, held, gone]
  answered,  \* wordings the model has answered for good (history)
  ops        \* requests of the user so far

vars == <<splitVars, cats, rules, job, answered, ops>>

\* A run waiting for the model: the wordings it asks about by row, what it
\* placed by keyword and has not written, and the categories it offered.
Idle == [asking |-> [i \in {} |-> Null], held |-> [i \in {} |-> Null], offered |-> {},
         on |-> FALSE]

----------------------------------------------------------------------------
(* Rules.                                                                   *)

Covers(rule, d) == d \in PartOf[rule.pat] \cup Overlaps[rule.pat]
Covering(rs, d) == { r \in rs : Covers(r, d) }
Strongest(rs) == { r \in rs : \A s \in rs : s.hits <= r.hits }
Hit(r, n) == [r EXCEPT !.hits = IF @ + n > MaxHits THEN MaxHits ELSE @ + n]

\* Mistake: only a rule that already names the category is looked for.
LearnedBeside(rs, d, c) ==
  LET same == { r \in rs : r.pat = Core[d] /\ r.cat = c } IN
  IF Core[d] = Blank THEN {rs}
  ELSE IF same = {} THEN {rs \cup {[pat |-> Core[d], cat |-> c, src |-> "user", hits |-> 1]}}
  ELSE { (rs \ same) \cup {Hit(r, 1)} : r \in Strongest(same) }

\* learn_from_correction: the strongest rule of the pattern is re-pointed
\* and the others go.
Learned(rs, d, c) ==
  LET same == { r \in rs : r.pat = Core[d] } IN
  IF Core[d] = Blank THEN {rs}
  ELSE IF same = {} THEN {rs \cup {[pat |-> Core[d], cat |-> c, src |-> "user", hits |-> 1]}}
  ELSE { (rs \ same) \cup {[Hit(r, 1) EXCEPT !.cat = c, !.src = "user"]} : r \in Strongest(same) }

\* Mistake: the model's answer takes over the rule of the wording.
LearnedOver(rs, d, c) ==
  IF d \in Wordless THEN rs
  ELSE { r \in rs : r.pat # d } \cup {[pat |-> d, cat |-> c, src |-> "llm", hits |-> 1]}

\* Mistake: the answer is stored under what is left of the wording.
LearnedCore(rs, d, c) ==
  IF Core[d] = Blank \/ \E r \in rs : r.pat = Core[d] THEN rs
  ELSE rs \cup {[pat |-> Core[d], cat |-> c, src |-> "llm", hits |-> 1]}

\* _learn_from_llm: stored under the whole wording, beside what is there.
LearnedFromModel(rs, d, c) ==
  IF d \in Wordless \/ \E r \in rs : r.pat = d THEN rs
  ELSE rs \cup {[pat |-> d, cat |-> c, src |-> "llm", hits |-> 1]}

AllLearned(rs, answers) ==
  FoldSet(LAMBDA d, acc : IF answers[d] = Null THEN acc ELSE LearnedFromModel(acc, d, answers[d]),
          rs, DOMAIN answers)

\* match_keyword, where the category it names exists.
ByKeyword(row) ==
  LET c == Keyword[row.desc][IF row.amt >= 0 THEN "in" ELSE "out"] IN
  IF c \in cats THEN c ELSE Null

\* _apply_to_matching_transactions: every row of the wording or with the
\* pattern in it.
SameAs(d) == {d} \cup PartOf[Core[d]]
Rewritten(rs, d, c) ==
  [i \in DOMAIN rs |-> IF rs[i].desc \in SameAs(d) THEN [rs[i] EXCEPT !.cat = c] ELSE rs[i]]

----------------------------------------------------------------------------
(* categorize_batch.                                                        *)

\* No ids are no restriction.
Chosen(ids) == IF ids = {} THEN DOMAIN rows ELSE ids
Uncategorised(ids) == { i \in Chosen(ids) : rows[i].cat = Null }

\* The cheap tiers.  Each hit of a rule is committed at once, and with it
\* what was placed by keyword so far; the rest is held until the model has
\* answered.  `win' is the rule that is first in the list for each row.
StartRun(ids) ==
  LET todo == Uncategorised(ids)
      ruled == { i \in todo : Covering(rules, rows[i].desc) # {} }
      worded == { i \in todo \ ruled : ByKeyword(rows[i]) # Null }
      rest == todo \ (ruled \cup worded)
  IN
  /\ ~job.on
  /\ \E win \in [ruled -> rules] : \E saved \in SUBSET worded :
       /\ \A i \in ruled : win[i] \in Strongest(Covering(rules, rows[i].desc))
       /\ IF ruled = {} THEN saved = IF rest = {} THEN worded ELSE {}
          ELSE rest = {} => saved = worded
       /\ rows' = [i \in DOMAIN rows |->
                     IF i \in ruled THEN [rows[i] EXCEPT !.cat = win[i].cat]
                     ELSE IF i \in saved THEN [rows[i] EXCEPT !.cat = ByKeyword(rows[i])]
                     ELSE rows[i]]
       /\ rules' = { Hit(r, Cardinality({ i \in ruled : win[i] = r })) : r \in rules }
       /\ job' = IF rest = {} THEN Idle
                 ELSE [asking |-> [i \in rest |-> rows[i].desc],
                       held |-> [i \in worded \ saved |-> ByKeyword(rows[i])],
                       offered |-> cats, on |-> TRUE]
  /\ import' = NoImport
  /\ UNCHANGED <<bin, early, cats, answered>>

\* A file that repeats what is there imports nothing.
ImportNothing ==
  /\ import = NoImport
  /\ import' = [step |-> "categorise", ids |-> {}]
  /\ UNCHANGED <<rows, bin, early>>

RunAfterImport == import.step = "categorise" /\ StartRun(import.ids \cap DOMAIN rows) /\ UNCHANGED ops
AutoCategorise == StartRun(DOMAIN rows) /\ import = NoImport /\ ops' = ops + 1

Asked == { job.asking[i] : i \in DOMAIN job.asking }
Placed(answers) ==
  [i \in DOMAIN job.held \cup { j \in DOMAIN job.asking : answers[job.asking[j]] # Null } |->
     IF i \in DOMAIN job.held THEN job.held[i] ELSE answers[job.asking[i]]]

\* What a run writes goes to the rows by their key, whatever they hold by
\* now; a row or a category that is gone fails the run as a whole.
FinishRun ==
  /\ job.on
  /\ \E answers \in [Asked -> job.offered \cup {Null}] :
       LET placed == Placed(answers) IN
       IF DOMAIN placed \subseteq DOMAIN rows /\ \A i \in DOMAIN placed : placed[i] \in cats
       THEN /\ rows' = [i \in DOMAIN rows |-> IF i \in DOMAIN placed
                                              THEN [rows[i] EXCEPT !.cat = placed[i]] ELSE rows[i]]
            /\ rules' = AllLearned(rules, answers)
            /\ answered' = answered \cup { d \in Asked \ Wordless : answers[d] # Null }
       ELSE UNCHANGED <<rows, rules, answered>>
  /\ job' = Idle
  /\ UNCHANGED <<bin, import, early, cats, ops>>

\* The process stops: what ran is not taken up again.
Restart ==
  /\ job.on \/ import # NoImport
  /\ job' = Idle /\ import' = NoImport /\ ops' = ops + 1
  /\ UNCHANGED <<rows, bin, early, cats, rules, answered>>

----------------------------------------------------------------------------
(* The pages.                                                               *)

\* bulk_set_category, auto_categorize_apply, for one row.
CorrectRow(i, c) ==
  /\ rows[i].cat # c
  /\ IF Core[rows[i].desc] = Blank
     THEN rows' = [rows EXCEPT ![i].cat = c] ELSE rows' = Rewritten(rows, rows[i].desc, c)
  /\ rules' \in Learned(rules, rows[i].desc, c)
  /\ UNCHANGED <<bin, import, early, cats, job, answered>>

EditForm(i, amt, c, transfer, lines) ==
  /\ EditRow(i, amt, c, transfer, lines)
  /\ IF c # Null /\ c # rows[i].cat THEN rules' \in Learned(rules, rows[i].desc, c)
     ELSE UNCHANGED rules
  /\ UNCHANGED <<cats, job, answered>>

\* suggest_categories counts a hit for what it only shows.
Suggest(i) ==
  /\ rows[i].cat = Null
  /\ \E r \in Strongest(Covering(rules, rows[i].desc)) : rules' = (rules \ {r}) \cup {Hit(r, 1)}
  /\ UNCHANGED <<splitVars, cats, job, answered>>

category_add(c) ==
  /\ c \notin cats
  /\ cats' = cats \cup {c}
  /\ UNCHANGED <<splitVars, rules, job, answered>>

StillCovered(rs) == { d \in answered : Covering(rs, d) # {} }

HeldBySplit(c) ==
  \E i \in DOMAIN rows : \E n \in DOMAIN rows[i].splits : rows[i].splits[n].cat = c

\* Rows and rules let go of the category; a split does not, and SQLite
\* refuses the deletion then.
category_delete(c) ==
  /\ c \in cats
  /\ ~HeldBySplit(c)
  /\ cats' = cats \ {c}
  /\ rows' = [i \in DOMAIN rows |-> IF rows[i].cat = c THEN [rows[i] EXCEPT !.cat = Null]
                                    ELSE rows[i]]
  /\ rules' = { r \in rules : r.cat # c }
  /\ answered' = StillCovered(rules')
  /\ UNCHANGED <<bin, import, early, job>>

rule_delete(r) ==
  /\ rules' = rules \ {r}
  /\ answered' = StillCovered(rules')
  /\ UNCHANGED <<splitVars, cats, job>>

\* The deletion log keeps the category's id, which is no reference there:
\* the row cannot be inserted once the category is gone.
Recover(i) == RecoverRow(i) /\ bin[i].cat \in cats \cup {Null}

RowOperation ==
  /\ \/ \E i \in RowIds, d \in Descs, amt \in Amounts : ImportRow(i, d, amt)
     \/ \E i \in RowIds, d \in Descs, amt \in Amounts, c \in cats \cup {Null}, t \in BOOLEAN :
          CreateRow(i, d, amt, t, c)
     \/ \E i \in DOMAIN rows, t \in BOOLEAN : SetTransfer(i, t)
     \/ \E i \in DOMAIN rows : DeleteRow(i)
     \/ \E i \in DOMAIN bin : Recover(i)
     \/ \E i \in RowIds, doc \in Documents : ApplyDocument(i, doc)
     \/ ImportNothing
  /\ UNCHANGED <<cats, rules, job, answered>>

UserOperation ==
  /\ ops < MaxOps
  /\ ops' = ops + 1
  /\ \/ RowOperation
     \/ \E i \in DOMAIN rows, amt \in Amounts, c \in cats \cup {Null}, t \in BOOLEAN :
          \E lines \in Layouts(amt, {c}, Offs) : EditForm(i, amt, c, t, lines)
     \/ \E i \in DOMAIN rows, c \in cats : CorrectRow(i, c)
     \/ \E i \in DOMAIN rows : Suggest(i)
     \/ \E c \in Cats : category_add(c) \/ category_delete(c)
     \/ \E r \in rules : rule_delete(r)

Init ==
  /\ SplitInit
  /\ cats = Cats /\ rules = {} /\ job = Idle /\ answered = {} /\ ops = 0

Next ==
  \/ UserOperation
  \/ (ClassifyImported \/ SplitImported \/ ClassificationFails)
     /\ UNCHANGED <<cats, rules, job, answered, ops>>
  \/ RunAfterImport \/ FinishRun
  \/ ops < MaxOps /\ (AutoCategorise \/ Restart)

Spec == Init /\ [][Next]_vars

----------------------------------------------------------------------------
(* One pattern, one category, however corrections, answers of the model,    *)
(* previews and deletions follow one another.  categorizer.py:303.          *)
OneRulePerPattern == \A r, s \in rules : r.pat = s.pat => r = s

(* The shapes of the tables and of the run in hand, and that key of the rules. *)
TypeOK ==
  /\ SplitTypeOK
  /\ cats \subseteq Cats /\ rules \subseteq Rule /\ answered \subseteq Descs
  /\ OneRulePerPattern
  /\ DOMAIN job.asking \cup DOMAIN job.held \subseteq RowIds /\ job.offered \subseteq Cats

(* What the model has answered it is never asked again, until the user      *)
(* deletes the rule or its category: some rule covers the wording.          *)
(* categorizer.py:721.                                                      *)
AskedOnce == \A d \in answered : Covering(rules, d) # {}

(* A rule of the user is re-pointed by the user alone: while a run ends,    *)
(* no rule of his changes its category or goes.  categorizer.py:673.        *)
ModelNeverOverrulesUser ==
  [][job.on /\ ~job'.on =>
       \A r \in rules : r.src = "user" => \E s \in rules' : s.pat = r.pat /\ s.cat = r.cat]_vars

(* A wording the user has corrected goes where the user put it: of the      *)
(* rules that cover it none of the model's is as strong as his.             *)
CorrectionWins ==
  \A r \in rules : r.src = "user" =>
    \A d \in Descs : Core[d] = r.pat =>
      \A s \in Strongest(Covering(rules, d)) : s.src = "llm" => s.cat = r.cat

(* What a run writes it writes to a row that is still without a category.   *)
UserChoiceKept ==
  [][job.on /\ ~job'.on =>
       \A i \in DOMAIN rows \cap DOMAIN rows' : rows[i].cat # Null => rows'[i].cat = rows[i].cat]_vars

(* The run after an import places the rows of the import and no others.     *)
(* imports.py:332-334.                                                      *)
OnlyNewRowsPlaced ==
  [][import.step = "categorise" /\ import' = NoImport =>
       \A i \in DOMAIN rows \cap DOMAIN rows' : i \notin import.ids => rows'[i].cat = rows[i].cat]_vars

(* A category the page lists may be deleted: nothing that stays refers to   *)
(* it.  routers/categories.py:151.                                          *)
CategoryDeletable == \A c \in cats : ~HeldBySplit(c)

(* A row in the deletion log can be recovered.                              *)
Recoverable == \A i \in DOMAIN bin : bin[i].cat \in cats \cup {Null}

(* A row with one split has its category on the split as well.              *)
SplitCategoryFollows ==
  \A i \in DOMAIN rows : Len(rows[i].splits) = 1 /\ ~IsFromDocument(rows[i]) =>
    rows[i].splits[1].cat = rows[i].cat
=============================================================================
