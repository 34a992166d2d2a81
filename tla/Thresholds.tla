------------------------------ MODULE Thresholds ------------------------------
(***************************************************************************)
(* The bars the alert rules compare with: how the [alerts] section of the  *)
(* config and the per-application template are merged                      *)
(* (ActiveThresholds::from_config_with_template, src/alerts.rs), and what  *)
(* the bar of one process, application or volume comes out as.             *)
(*                                                                         *)
(* A name is a sequence of letters with the case folded away; an override  *)
(* key may have a star as well.  Percentages and sizes are naturals, 0     *)
(* standing for every value that is not above 0 (a negative one, a NaN).   *)
(***************************************************************************)
EXTENDS Integers, Sequences, FiniteSets

CONSTANTS Defaults,      \* the built-in default of every rule and ceiling
          ProcessNames,  \* the inputs UserDecides is checked for: names,
          Patterns,      \* override keys,
          Percents,      \* percentages
          Totals         \* and sizes of the machine's memory

(* The rules whose bar depends on a name; two of them have a ceiling too.  *)
Rules == {"cpu", "mem", "disk", "app_cpu", "app_mem"}
Ceilings == {"mem", "app_mem"}
Templated == Rules \ {"disk"}

ASSUME ThresholdsAssumption ==
    /\ Defaults.base \in [Rules -> Nat \ {0}]
    /\ Defaults.bytes \in [Ceilings -> Nat \ {0}]
    /\ ProcessNames \subseteq Seq(Nat) /\ Patterns \subseteq Seq(Nat)
    /\ Percents \subseteq Nat /\ Totals \subseteq Nat

Unset == -1           \* None in the config
Off == -2             \* None as a threshold: the rule does not apply
Star == 0             \* "*" among the letters of a key

-----------------------------------------------------------------------------
(* Matcher *)

Leading(key) == key # <<>> /\ Head(key) = Star
AfterLeading(key) == IF Leading(key) THEN Tail(key) ELSE key
Trailing(key) == LET rest == AfterLeading(key) IN rest # <<>> /\ rest[Len(rest)] = Star
Literal(key) ==
    LET rest == AfterLeading(key)
    IN  IF Trailing(key) THEN SubSeq(rest, 1, Len(rest) - 1) ELSE rest

(* A star inside the name is refused ...                                   *)
Parses(key) == \A i \in DOMAIN Literal(key) : Literal(key)[i] # Star

(* ... by -add and in a template; push takes such a key from a config file *)
(* as a plain name.                                                        *)
Matcher(key) ==
    IF Parses(key)
    THEN [literal |-> Literal(key), leading |-> Leading(key), trailing |-> Trailing(key)]
    ELSE [literal |-> key, leading |-> FALSE, trailing |-> FALSE]

Exact(m) == ~m.leading /\ ~m.trailing

(* The literal stands in the name, at its start and its end unless a star  *)
(* says otherwise.                                                         *)
Matches(m, name) ==
    \E before \in 0..Len(name) - Len(m.literal) :
        /\ m.leading \/ before = 0
        /\ m.trailing \/ before + Len(m.literal) = Len(name)
        /\ SubSeq(name, before + 1, before + Len(m.literal)) = m.literal

-----------------------------------------------------------------------------
(* Override and Thresholds *)

(* Mutant: specificity before layer.                                       *)
OutranksByShape(a, b) ==
    LET la == Len(a.matcher.literal) lb == Len(b.matcher.literal) IN
    \/ Exact(a.matcher) /\ ~Exact(b.matcher)
    \/ (Exact(a.matcher) = Exact(b.matcher)) /\ (la > lb \/ (la = lb /\ a.user /\ ~b.user))

(* rank: a user's entry before a template's, then an exact name before a   *)
(* pattern, then the longer literal.                                       *)
Outranks(a, b) ==
    LET la == Len(a.matcher.literal) lb == Len(b.matcher.literal) IN
    \/ a.user /\ ~b.user
    \/ /\ a.user = b.user
       /\ \/ Exact(a.matcher) /\ ~Exact(b.matcher)
          \/ Exact(a.matcher) = Exact(b.matcher) /\ la > lb

Matching(t, name) == {i \in DOMAIN t.overrides : Matches(t.overrides[i].matcher, name)}

(* The first of the highest-ranking entries that match.                    *)
Deciding(t, name) ==
    LET Over(i) == t.overrides[i]
        top == {i \in Matching(t, name) :
                   \A j \in Matching(t, name) : ~Outranks(Over(j), Over(i))}
    IN  CHOOSE i \in top : \A j \in top : i <= j

Overridden(t, name) == Matching(t, name) # {}
override_for(t, name) == t.overrides[Deciding(t, name)].value
for_process(t, name) == IF Overridden(t, name) THEN override_for(t, name) ELSE t.default

rule_any_enabled(t) ==
    t.default # Off \/ \E i \in DOMAIN t.overrides : t.overrides[i].value # Off

-----------------------------------------------------------------------------
(* from_config_with_template *)

IfPositive(p) == IF p > 0 THEN p ELSE Off

(* The maps are in key order, which decides between equal ranks.           *)
Entries(overrides, user) ==
    [i \in DOMAIN overrides |-> [matcher |-> Matcher(overrides[i].key), user |-> user,
                                 value |-> IfPositive(overrides[i].pct)]]

Default(p, builtin) == IF p = Unset THEN builtin ELSE IfPositive(p)

(* The template refines a rule that is on.                                 *)
TemplateApplies(file, rule, default) ==
    rule \in Templated /\ file.template /\ default # Off

RuleOf(file, template, rule) ==
    LET default == Default(file.base[rule], Defaults.base[rule])
    IN  [default |-> default,
         overrides |-> Entries(file.overrides[rule], TRUE)
                       \o IF TemplateApplies(file, rule, default)
                          THEN Entries(template[rule], FALSE) ELSE <<>>]

(* The ceiling goes with its rule; 0 removes it alone.                     *)
CeilingOf(file, rule) ==
    IF Default(file.base[rule], Defaults.base[rule]) = Off THEN Off
    ELSE Default(file.bytes[rule], Defaults.bytes[rule])

from_config_with_template(file, template) ==
    [rule |-> [r \in Rules |-> RuleOf(file, template, r)],
     bytes |-> [r \in Ceilings |-> CeilingOf(file, r)],
     pressure |-> file.pressure]

(* `pressure` is the level the config asks for; only macOS has verdicts.   *)
any_enabled(merged, supported) ==
    (\E r \in Rules : rule_any_enabled(merged.rule[r])) \/ (merged.pressure # Off /\ supported)

-----------------------------------------------------------------------------
(* The memory bars, in bytes *)

fraction_bytes(pct, total) == (pct * total) \div 100
Lower(a, b) == IF a = Off THEN b ELSE IF b = Off \/ a <= b THEN a ELSE b

(* memory_base_bytes and the second half of app_memory_bar_bytes.          *)
base_bytes(merged, rule, total) ==
    LET pct == merged.rule[rule].default
    IN  Lower(IF pct = Off THEN Off ELSE fraction_bytes(pct, total), merged.bytes[rule])

(* memory_bar_bytes and app_memory_bar_bytes: an override replaces both    *)
(* the share and the ceiling.                                              *)
bar_bytes(merged, rule, name, total) ==
    LET t == merged.rule[rule] IN
    IF ~Overridden(t, name) THEN base_bytes(merged, rule, total)
    ELSE IF override_for(t, name) = Off THEN Off
    ELSE fraction_bytes(override_for(t, name), total)

(* What a rule compares the reading of `name` with.                        *)
Bar(merged, rule, name, total) ==
    IF rule \in Ceilings THEN bar_bytes(merged, rule, name, total)
    ELSE for_process(merged.rule[rule], name)

-----------------------------------------------------------------------------
(* Properties *)

Overrides == {<<>>} \cup {<<[key |-> k, pct |-> p]>> : k \in Patterns, p \in Percents}

(* A situation: one rule with its setting, a ceiling, a user's override    *)
(* and a template entry, a name and a machine.                             *)
Situations ==
    [rule : Rules, pct : Percents \cup {Unset}, bytes : {Unset, 0} \cup Totals,
     mine : Overrides, theirs : Overrides, template : BOOLEAN,
     name : ProcessNames, total : Totals]

(* The other rules are off.                                                *)
ActiveIn(s) ==
    from_config_with_template(
        [base |-> [r \in Rules |-> IF r = s.rule THEN s.pct ELSE 0],
         overrides |-> [r \in Rules |-> IF r = s.rule THEN s.mine ELSE <<>>],
         bytes |-> [r \in Ceilings |-> s.bytes],
         pressure |-> Off, template |-> s.template],
        [r \in Templated |-> s.theirs])

AskedFor(s) ==
    LET pct == s.mine[1].pct IN
    IF pct = 0 THEN Off
    ELSE IF s.rule \in Ceilings THEN fraction_bytes(pct, s.total) ELSE pct

(* The user has the last word, whatever the template says.  A name a       *)
(* user's override matches has the bar it gives and no other, ceiling and  *)
(* built-in default included; a rule that is switched off fires for no     *)
(* other name; and when no rule counts as enabled, so that serve installs  *)
(* no sink, no name has a bar (src/alerts.rs:840-1166).                    *)
Respected(s) ==
    LET merged == ActiveIn(s)
        bar == Bar(merged, s.rule, s.name, s.total)
        asked == s.mine # <<>> /\ Matches(Matcher(s.mine[1].key), s.name)
    IN  /\ asked => bar = AskedFor(s)
        /\ ~asked /\ s.pct = 0 => bar = Off
        /\ ~any_enabled(merged, FALSE) => bar = Off

EveryoneRespected == \A s \in Situations : Respected(s)
=============================================================================
