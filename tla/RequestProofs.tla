---------------------------- MODULE RequestProofs ----------------------------
(******************************************************************************)
(* Proofs about the requests of the daemon, for any configuration.            *)
(*                                                                            *)
(* The first part is about module Access, the rule system of HTConfig.c and   *)
(* the authorisation of HTAAServ.c: what HTAA_checkAuthorization promises of  *)
(* an environment (Authorised), that what an earlier URL left in the global   *)
(* variables does not open what a set-up protects (AuthorisedAlike), that a   *)
(* refusal does not tell whether the file is there where the access control   *)
(* list treats its names alike (RefusedUnseen), and that a list admits what   *)
(* is served under the name of the file (ListsAdmit).                         *)
(*                                                                            *)
(* The second is about a request in a child of the daemon, HTHandle() of      *)
(* HTDaemon.c and the scripts of HTScript.c: what is served has been admitted *)
(* (AccessRight of module Request), the client gets one answer (AnswerRight), *)
(* and an alarm clock covers every wait (TimersCover).                        *)
(******************************************************************************)
EXTENDS Request, WellFoundedInduction, TLAPS


\* A set of numbers has a least one.
LEMMA LeastNatural ==
    ASSUME NEW T, T \subseteq Nat, T # {}
    PROVE  \E m \in T : \A k \in T : m <= k
<1>1. \E m \in T : \A k \in T : ~ (<<k, m>> \in OpToRel(<, Nat))
  BY WFMin, NatLessThanWellFounded
<1>2. OpToRel(<, Nat) = {p \in Nat \X Nat : p[1] < p[2]}
  BY Zenon DEF OpToRel
<1>3. \A k, m \in Nat : k < m => <<k, m>> \in {p \in Nat \X Nat : p[1] < p[2]}
  OBVIOUS
<1>4. PICK m \in T : \A k \in T : ~ (<<k, m>> \in OpToRel(<, Nat))
  BY <1>1
<1>5. \A k \in T : ~ (k < m)
  BY <1>2, <1>3, <1>4, Zenon
<1> QED
  BY <1>5

\* Induction up to n, for a set.
LEMMA UpTo ==
    ASSUME NEW n \in Nat, NEW T, 0 \in T, \A i \in 1 .. n : i - 1 \in T => i \in T
    PROVE  \A i \in 0 .. n : i \in T
<1> DEFINE out == {i \in 0 .. n : i \notin T}
<1>1. SUFFICES ASSUME out # {} PROVE FALSE
  OBVIOUS
<1>2. out \subseteq Nat
  OBVIOUS
<1>3. PICK m \in out : \A k \in out : m <= k
  <2> HIDE DEF out
  <2> QED
    BY <1>1, <1>2, LeastNatural
<1>4. m \in 1 .. n
  BY <1>3
<1>5. m - 1 \in 0 .. n /\ ~ (m <= m - 1)
  BY <1>4
<1>6. m - 1 \in T
  BY <1>3, <1>5
<1> QED
  BY <1>3, <1>4, <1>6

\* The loop of a dry run: a rule at a time.
LEMMA DryLoopIs ==
    ASSUME NEW rules, Len(rules) \in Nat, NEW e
    PROVE  LET s == DryLoop(rules, e) IN
           s = [i \in 0 .. Len(rules) |->
                  IF i = 0 THEN [e |-> e, path |-> e.HTScriptPathInfo, done |-> FALSE]
                  ELSE DryRule(s[i - 1], rules[i])]
<1> DEFINE n == Len(rules)
           start == [e |-> e, path |-> e.HTScriptPathInfo, done |-> FALSE]
           T == {k \in 0 .. n : \E g : g = [i \in 0 .. k |->
                                             IF i = 0 THEN start ELSE DryRule(g[i - 1], rules[i])]}
<1>1. 0 \in T
  <2> DEFINE g == [i \in 0 .. 0 |-> start]
  <2>1. g = [i \in 0 .. 0 |-> IF i = 0 THEN start ELSE DryRule(g[i - 1], rules[i])]
    OBVIOUS
  <2> HIDE DEF g, start
  <2>2. \E f : f = [i \in 0 .. 0 |-> IF i = 0 THEN start ELSE DryRule(f[i - 1], rules[i])]
    BY <2>1
  <2> QED
    BY <2>2
<1>2. ASSUME NEW k \in 1 .. n, k - 1 \in T PROVE k \in T
  <2>1. PICK g : g = [i \in 0 .. k - 1 |-> IF i = 0 THEN start ELSE DryRule(g[i - 1], rules[i])]
    BY <1>2
  <2> DEFINE h == [i \in 0 .. k |-> IF i = k THEN DryRule(g[k - 1], rules[k]) ELSE g[i]]
  <2> HIDE DEF start
  <2>2. \A i \in 0 .. k : h[i] = IF i = 0 THEN start ELSE DryRule(h[i - 1], rules[i])
    <3> TAKE i \in 0 .. k
    <3>1. CASE i = 0
      BY <2>1, <3>1
    <3>2. CASE i = k
      <4>1. h[i] = DryRule(g[k - 1], rules[k]) /\ h[i - 1] = g[k - 1]
        BY <3>2
      <4> QED
        BY <3>2, <4>1
    <3>3. CASE i \in 1 .. k - 1
      <4>1. h[i] = g[i] /\ h[i - 1] = g[i - 1]
        BY <3>3
      <4>2. g[i] = DryRule(g[i - 1], rules[i])
        BY <2>1, <3>3
      <4> HIDE DEF h
      <4> QED
        BY <3>3, <4>1, <4>2
    <3> QED
      BY <3>1, <3>2, <3>3
  <2>3. h = [i \in 0 .. k |-> h[i]]
    OBVIOUS
  <2> HIDE DEF h
  <2>4. h = [i \in 0 .. k |-> IF i = 0 THEN start ELSE DryRule(h[i - 1], rules[i])]
    BY <2>2, <2>3
  <2> QED
    BY <2>4
<1>3. n \in T
  <2>1. n \in Nat /\ n \in 0 .. n
    OBVIOUS
  <2> HIDE DEF T, n
  <2> QED
    BY <1>1, <1>2, <2>1, UpTo
<1>4. \E g : g = [i \in 0 .. n |-> IF i = 0 THEN start ELSE DryRule(g[i - 1], rules[i])]
  BY <1>3
<1> QED
  BY <1>4 DEF DryLoop

\* The loop over the rules, a rule at a time.
LEMMA RealLoopIs ==
    ASSUME NEW rules, Len(rules) \in Nat, NEW e
    PROVE  LET s == RealLoop(rules, e) IN
           s = [i \in 0 .. Len(rules) |->
                  IF i = 0 THEN [e |-> e, path |-> e.HTReqArgPath, done |-> FALSE]
                  ELSE RealRule(rules, s[i - 1], rules[i])]
<1> DEFINE n == Len(rules)
           start == [e |-> e, path |-> e.HTReqArgPath, done |-> FALSE]
           T == {k \in 0 .. n : \E g : g = [i \in 0 .. k |->
                                             IF i = 0 THEN start ELSE RealRule(rules, g[i - 1], rules[i])]}
<1>1. 0 \in T
  <2> DEFINE g == [i \in 0 .. 0 |-> start]
  <2>1. g = [i \in 0 .. 0 |-> IF i = 0 THEN start ELSE RealRule(rules, g[i - 1], rules[i])]
    OBVIOUS
  <2> HIDE DEF g, start
  <2>2. \E f : f = [i \in 0 .. 0 |-> IF i = 0 THEN start ELSE RealRule(rules, f[i - 1], rules[i])]
    BY <2>1
  <2> QED
    BY <2>2
<1>2. ASSUME NEW k \in 1 .. n, k - 1 \in T PROVE k \in T
  <2>1. PICK g : g = [i \in 0 .. k - 1 |-> IF i = 0 THEN start ELSE RealRule(rules, g[i - 1], rules[i])]
    BY <1>2
  <2> DEFINE h == [i \in 0 .. k |-> IF i = k THEN RealRule(rules, g[k - 1], rules[k]) ELSE g[i]]
  <2> HIDE DEF start
  <2>2. \A i \in 0 .. k : h[i] = IF i = 0 THEN start ELSE RealRule(rules, h[i - 1], rules[i])
    <3> TAKE i \in 0 .. k
    <3>1. CASE i = 0
      BY <2>1, <3>1
    <3>2. CASE i = k
      <4>1. h[i] = RealRule(rules, g[k - 1], rules[k]) /\ h[i - 1] = g[k - 1]
        BY <3>2
      <4> QED
        BY <3>2, <4>1
    <3>3. CASE i \in 1 .. k - 1
      <4>1. h[i] = g[i] /\ h[i - 1] = g[i - 1]
        BY <3>3
      <4>2. g[i] = RealRule(rules, g[i - 1], rules[i])
        BY <2>1, <3>3
      <4> HIDE DEF h
      <4> QED
        BY <3>3, <4>1, <4>2
    <3> QED
      BY <3>1, <3>2, <3>3
  <2>3. h = [i \in 0 .. k |-> h[i]]
    OBVIOUS
  <2> HIDE DEF h
  <2>4. h = [i \in 0 .. k |-> IF i = 0 THEN start ELSE RealRule(rules, h[i - 1], rules[i])]
    BY <2>2, <2>3
  <2> QED
    BY <2>4
<1>3. n \in T
  <2>1. n \in Nat /\ n \in 0 .. n
    OBVIOUS
  <2> HIDE DEF T, n
  <2> QED
    BY <1>1, <1>2, <2>1, UpTo
<1>4. \E g : g = [i \in 0 .. n |-> IF i = 0 THEN start ELSE RealRule(rules, g[i - 1], rules[i])]
  BY <1>3
<1> QED
  BY <1>4 DEF RealLoop

-----------------------------------------------------------------------------
(* The environment of a request                                            *)

\* The global variables of the environment.
Fields == {"HTReqArg", "HTReqArgPath", "HTReqTranslated", "HTReqScript", "HTScriptPathInfo",
           "HTScriptPathTrans", "HTLocation", "HTReason", "HTReasonLine", "HTUser", "HTProt",
           "HTDefProt", "HTIds", "status_code"}

\* A state of the loop.
IsState(s) == DOMAIN s = {"e", "path", "done"} /\ DOMAIN s.e = Fields

\* Two environments of the same URL, the second with what an earlier one left.
Alike(f, a) ==
    /\ DOMAIN f = Fields /\ DOMAIN a = Fields
    /\ a.HTReqArg = f.HTReqArg /\ a.HTReqArgPath = f.HTReqArgPath
    /\ a.HTReqTranslated = f.HTReqTranslated /\ a.HTReqScript = f.HTReqScript
    /\ a.HTScriptPathInfo = f.HTScriptPathInfo /\ a.HTScriptPathTrans = f.HTScriptPathTrans
    /\ a.HTLocation = f.HTLocation /\ a.HTReason = f.HTReason
    /\ f.HTDefProt # None => a.HTDefProt = f.HTDefProt
    /\ f.HTProt # None => a.HTProt = f.HTProt

\* What the translation of a script's path leaves alone.
Untouched(e, f) ==
    /\ f.HTReqArg = e.HTReqArg /\ f.HTReqScript = e.HTReqScript
    /\ f.HTProt = e.HTProt /\ f.HTDefProt = e.HTDefProt /\ f.HTIds = e.HTIds

\* Passing keeps two environments alike.
LEMMA PassedAlike ==
    ASSUME NEW f, NEW a, Alike(f, a), NEW path, NEW dry \in BOOLEAN
    PROVE  Alike(Passed(f, path, dry), Passed(a, path, dry))
BY DEF Alike, Passed, Fields

\* Passing sets the translation, or the redirection, and no more.
LEMMA PassedKeeps ==
    ASSUME NEW e, DOMAIN e = Fields, NEW path, NEW dry \in BOOLEAN
    PROVE  DOMAIN Passed(e, path, dry) = Fields /\ Untouched(e, Passed(e, path, dry))
BY DEF Passed, Fields, Untouched

\* So does the end of the loop.
LEMMA AfterRulesAlike ==
    ASSUME NEW f, NEW a, Alike(f, a), NEW path, NEW dry \in BOOLEAN
    PROVE  Alike(AfterRules(f, path, dry), AfterRules(a, path, dry))
<1>1. Alike([f EXCEPT !.HTReqTranslated = None], [a EXCEPT !.HTReqTranslated = None])
  BY DEF Alike, Fields
<1>2. ASSUME NEW g, NEW b, Alike(g, b) PROVE Alike(Refused(g, "BY_RULE"), Refused(b, "BY_RULE"))
  BY <1>2 DEF Alike, Refused, Fields
<1> QED
  BY <1>1, <1>2, PassedAlike DEF AfterRules

\* The end of the loop sets the translation and the reason.
LEMMA AfterRulesKeeps ==
    ASSUME NEW e, DOMAIN e = Fields, NEW path, NEW dry \in BOOLEAN
    PROVE  DOMAIN AfterRules(e, path, dry) = Fields /\ Untouched(e, AfterRules(e, path, dry))
BY PassedKeeps DEF AfterRules, Refused, Untouched, Fields

\* The states of two dry runs, of environments f and a.
DryPair(f, a, s, t) ==
    /\ IsState(s) /\ IsState(t) /\ t.path = s.path /\ t.done = s.done
    /\ Alike(s.e, t.e) /\ Untouched(f, s.e) /\ Untouched(a, t.e)

\* Two dry runs go through a rule alike.
LEMMA DryRulePair ==
    ASSUME NEW f, NEW a, NEW s, NEW t, DryPair(f, a, s, t), NEW r
    PROVE  DryPair(f, a, DryRule(s, r), DryRule(t, r))
<1>1. CASE s.done \/ s.path \notin r.pat
  BY <1>1 DEF DryRule, DryPair
<1>2. CASE ~(s.done \/ s.path \notin r.pat)
  <2> DEFINE path == Mapped(r, s.path)
  <2>1. ASSUME NEW x, IsState(x) PROVE IsState([x EXCEPT !.path = path])
        /\ [x EXCEPT !.path = path].e = x.e /\ [x EXCEPT !.path = path].path = path
        /\ [x EXCEPT !.path = path].done = x.done
    BY <2>1 DEF IsState
  <2>2. ASSUME NEW x, DOMAIN x = Fields PROVE IsState([e |-> x, path |-> path, done |-> TRUE])
    BY <2>2 DEF IsState
  <2> HIDE DEF path
  <2>3. CASE Ignored(r, TRUE) \/ r.op = "Map"
    BY <1>2, <2>1, <2>3 DEF DryRule, DryPair, path
  <2>4. CASE ~(Ignored(r, TRUE) \/ r.op = "Map") /\ r.op = "Pass"
    <3>1. Alike(Passed(s.e, path, TRUE), Passed(t.e, path, TRUE))
      BY PassedAlike DEF DryPair
    <3>2. /\ DOMAIN Passed(s.e, path, TRUE) = Fields /\ DOMAIN Passed(t.e, path, TRUE) = Fields
          /\ Untouched(s.e, Passed(s.e, path, TRUE)) /\ Untouched(t.e, Passed(t.e, path, TRUE))
      BY PassedKeeps DEF DryPair, IsState
    <3>3. /\ DryRule(s, r) = [e |-> Passed(s.e, path, TRUE), path |-> path, done |-> TRUE]
          /\ DryRule(t, r) = [e |-> Passed(t.e, path, TRUE), path |-> path, done |-> TRUE]
      BY <1>2, <2>4 DEF DryRule, DryPair, path
    <3>4. /\ Untouched(f, Passed(s.e, path, TRUE)) /\ Untouched(a, Passed(t.e, path, TRUE))
      BY <3>2 DEF DryPair, Untouched
    <3>5. IsState(DryRule(s, r)) /\ IsState(DryRule(t, r))
      BY <2>2, <3>2, <3>3
    <3>6. /\ DryRule(s, r).e = Passed(s.e, path, TRUE) /\ DryRule(t, r).e = Passed(t.e, path, TRUE)
          /\ DryRule(s, r).path = DryRule(t, r).path /\ DryRule(s, r).done = DryRule(t, r).done
      BY <3>3
    <3> QED
      BY <3>1, <3>4, <3>5, <3>6, Zenon DEF DryPair
  <2>5. CASE ~(Ignored(r, TRUE) \/ r.op = "Map") /\ r.op # "Pass" /\ path \in UserDir
    BY <1>2, <2>1, <2>5 DEF DryRule, DryPair, path
  <2>6. CASE ~(Ignored(r, TRUE) \/ r.op = "Map") /\ r.op # "Pass" /\ path \notin UserDir
    <3>1. Alike(Refused(s.e, "BY_RULE"), Refused(t.e, "BY_RULE"))
          /\ DOMAIN Refused(s.e, "BY_RULE") = Fields /\ DOMAIN Refused(t.e, "BY_RULE") = Fields
          /\ Untouched(f, Refused(s.e, "BY_RULE")) /\ Untouched(a, Refused(t.e, "BY_RULE"))
      BY DEF DryPair, Alike, Refused, Untouched, Fields
    <3>3. /\ DryRule(s, r) = [e |-> Refused(s.e, "BY_RULE"), path |-> path, done |-> TRUE]
          /\ DryRule(t, r) = [e |-> Refused(t.e, "BY_RULE"), path |-> path, done |-> TRUE]
      BY <1>2, <2>6 DEF DryRule, DryPair, path
    <3> QED
      BY <2>2, <3>1, <3>3 DEF DryPair
  <2> QED
    BY <2>3, <2>4, <2>5, <2>6
<1> QED
  BY <1>1, <1>2

\* The rest of a script's path is translated alike, and nothing else is changed.
LEMMA PathInfoTranslated ==
    ASSUME NEW rules, Len(rules) \in Nat, NEW f, NEW a, Alike(f, a)
    PROVE  /\ Alike(TranslatePathInfo(rules, f), TranslatePathInfo(rules, a))
           /\ Untouched(f, TranslatePathInfo(rules, f))
           /\ Untouched(a, TranslatePathInfo(rules, a))
<1> DEFINE n == Len(rules)
           s == DryLoop(rules, f)
           t == DryLoop(rules, a)
           T == {i \in 0 .. n : DryPair(f, a, s[i], t[i])}
<1>1. /\ s = [i \in 0 .. n |->
                 IF i = 0 THEN [e |-> f, path |-> f.HTScriptPathInfo, done |-> FALSE]
                 ELSE DryRule(s[i - 1], rules[i])]
      /\ t = [i \in 0 .. n |->
                 IF i = 0 THEN [e |-> a, path |-> a.HTScriptPathInfo, done |-> FALSE]
                 ELSE DryRule(t[i - 1], rules[i])]
  BY DryLoopIs
<1> HIDE DEF s, t
<1>2. n \in Nat /\ n \in 0 .. n
  OBVIOUS
<1> HIDE DEF n
<1>3. /\ s[0] = [e |-> f, path |-> f.HTScriptPathInfo, done |-> FALSE]
      /\ t[0] = [e |-> a, path |-> a.HTScriptPathInfo, done |-> FALSE]
  BY <1>1, <1>2
<1>4. 0 \in T
  <2>1. DryPair(f, a, s[0], t[0])
    BY <1>3 DEF DryPair, IsState, Alike, Untouched
  <2> QED
    BY <1>2, <2>1
<1>5. ASSUME NEW i \in 1 .. n, i - 1 \in T PROVE i \in T
  <2>0. i \in 0 .. n /\ i # 0
    BY <1>2
  <2> HIDE DEF T
  <2>1. s[i] = DryRule(s[i - 1], rules[i]) /\ t[i] = DryRule(t[i - 1], rules[i])
    BY <1>1, <2>0
  <2> USE DEF T
  <2>2. DryPair(f, a, DryRule(s[i - 1], rules[i]), DryRule(t[i - 1], rules[i]))
    BY <1>5, DryRulePair
  <2> QED
    BY <2>0, <2>1, <2>2
<1>6. n \in T
  <2> HIDE DEF T
  <2> QED
    BY <1>2, <1>4, <1>5, UpTo
<1>7. DryPair(f, a, s[n], t[n])
  BY <1>6
<1>8. /\ TranslatePathInfo(rules, f) = Ended(s[n], TRUE)
      /\ TranslatePathInfo(rules, a) = Ended(t[n], TRUE)
  BY DEF TranslatePathInfo, s, t, n
<1>9. CASE s[n].done
  BY <1>7, <1>8, <1>9 DEF Ended, DryPair
<1>10. CASE ~s[n].done
  <2> DEFINE u == s[n]
             v == t[n]
  <2>1. /\ Ended(u, TRUE) = AfterRules(u.e, u.path, TRUE)
        /\ Ended(v, TRUE) = AfterRules(v.e, u.path, TRUE)
    BY <1>7, <1>10 DEF Ended, DryPair
  <2>2. DOMAIN u.e = Fields /\ DOMAIN v.e = Fields /\ Alike(u.e, v.e)
        /\ Untouched(f, u.e) /\ Untouched(a, v.e)
    BY <1>7 DEF DryPair, IsState
  <2> HIDE DEF u, v
  <2>3. /\ Alike(AfterRules(u.e, u.path, TRUE), AfterRules(v.e, u.path, TRUE))
        /\ Untouched(u.e, AfterRules(u.e, u.path, TRUE))
        /\ Untouched(v.e, AfterRules(v.e, u.path, TRUE))
    BY <2>2, AfterRulesAlike, AfterRulesKeeps
  <2>4. /\ Untouched(f, AfterRules(u.e, u.path, TRUE))
        /\ Untouched(a, AfterRules(v.e, u.path, TRUE))
    BY <2>2, <2>3 DEF Untouched
  <2> QED
    BY <1>8, <2>1, <2>3, <2>4 DEF u, v
<1> QED
  BY <1>9, <1>10

\* A redirection is the same in both.
LEMMA RedirectAlike ==
    ASSUME NEW r, NEW f, NEW a, Alike(f, a), NEW path
    PROVE  Alike(Redirect(r, f, path), Redirect(r, a, path))
BY DEF Alike, Redirect, Refused, Fields

\* A refusal keeps two environments alike.
LEMMA RefusedAlike ==
    ASSUME NEW f, NEW a, Alike(f, a), NEW why
    PROVE  Alike(Refused(f, why), Refused(a, why))
BY DEF Alike, Refused, Fields

\* A Protect or DefProt rule sets up the same protection in both, but where the first has
\* none an earlier one may stay in force.
LEMMA SetProtectionAlike ==
    ASSUME NEW r, NEW f, NEW a, Alike(f, a)
    PROVE  Alike(SetProtection(r, f), SetProtection(r, a))
<1>1. CASE r.op = "DefProt"
  BY <1>1 DEF Alike, SetProtection, Fields
<1>2. CASE r.op # "DefProt" /\ r.setup # None
  BY <1>2 DEF Alike, SetProtection, Fields
<1>3. CASE r.op # "DefProt" /\ r.setup = None /\ f.HTDefProt # None
  BY <1>3 DEF Alike, SetProtection, Fields
<1>4. CASE r.op # "DefProt" /\ r.setup = None /\ f.HTDefProt = None
  BY <1>4 DEF Alike, SetProtection, Fields
<1> QED
  BY <1>1, <1>2, <1>3, <1>4

\* The script that an Exec rule names.
Call(e, path) == [e EXCEPT !.HTReqScript = ScriptName[path], !.HTScriptPathInfo = PathInfo[path]]

\* Exec: the rest of the path is translated, if there is any.
LEMMA ExecIs ==
    ASSUME NEW rules, NEW e, NEW path
    PROVE  Exec(rules, e, path) =
             IF PathInfo[path] = None THEN Call(e, path) ELSE TranslatePathInfo(rules, Call(e, path))
BY DEF Exec, Call

\* An Exec rule names the same script in both.
LEMMA ExecAlike ==
    ASSUME NEW rules, Len(rules) \in Nat, NEW f, NEW a, Alike(f, a), NEW path
    PROVE  Alike(Exec(rules, f, path), Exec(rules, a, path))
<1>1. Alike(Call(f, path), Call(a, path))
  BY DEF Alike, Call, Fields
<1> QED
  BY <1>1, ExecIs, PathInfoTranslated

\* An Exec rule leaves the protection alone.
LEMMA ExecKeeps ==
    ASSUME NEW rules, Len(rules) \in Nat, NEW e, DOMAIN e = Fields, NEW path
    PROVE  /\ DOMAIN Exec(rules, e, path) = Fields
           /\ Untouched(Call(e, path), Exec(rules, e, path))
<1>1. Alike(Call(e, path), Call(e, path))
  BY DEF Alike, Call, Fields
<1>2. Untouched(Call(e, path), Call(e, path)) /\ DOMAIN Call(e, path) = Fields
  BY DEF Untouched, Call, Fields
<1> QED
  BY <1>1, <1>2, ExecIs, PathInfoTranslated DEF Alike

\* The states of two runs.
RealPair(s, t) ==
    /\ IsState(s) /\ IsState(t) /\ t.path = s.path /\ t.done = s.done
    /\ Alike(s.e, t.e)

\* Two runs go through a rule alike.
LEMMA RealRulePair ==
    ASSUME NEW rules, Len(rules) \in Nat, NEW s, NEW t, RealPair(s, t), NEW r
    PROVE  RealPair(RealRule(rules, s, r), RealRule(rules, t, r))
<1>1. CASE s.done \/ s.path \notin r.pat
  BY <1>1 DEF RealRule, RealPair
<1>2. CASE ~(s.done \/ s.path \notin r.pat)
  <2> DEFINE path == Mapped(r, s.path)
             At(e) == [e |-> e, path |-> path, done |-> TRUE]
             Going(x) == [x EXCEPT !.path = path]
             Set(x) == [x EXCEPT !.e = SetProtection(r, x.e), !.path = path]
  <2>1. Alike(s.e, t.e) /\ t.path = s.path /\ t.done = s.done
    BY DEF RealPair
  <2>2. ASSUME NEW f, NEW a, Alike(f, a) PROVE RealPair(At(f), At(a))
    BY <2>2 DEF RealPair, IsState, Alike
  <2>3. RealPair(Going(s), Going(t))
    BY DEF RealPair, IsState
  <2>4. RealPair(Set(s), Set(t))
    <3>1. Alike(SetProtection(r, s.e), SetProtection(r, t.e))
      BY <2>1, SetProtectionAlike
    <3>2. /\ Set(s).e = SetProtection(r, s.e) /\ Set(t).e = SetProtection(r, t.e)
          /\ Set(s).path = path /\ Set(t).path = path /\ Set(s).done = s.done /\ Set(t).done = t.done
          /\ DOMAIN Set(s) = {"e", "path", "done"} /\ DOMAIN Set(t) = {"e", "path", "done"}
      BY DEF RealPair, IsState
    <3>3. DOMAIN SetProtection(r, s.e) = Fields /\ DOMAIN SetProtection(r, t.e) = Fields
      BY <3>1 DEF Alike
    <3> HIDE DEF Set
    <3> QED
      BY <2>1, <3>1, <3>2, <3>3 DEF RealPair, IsState
  <2>5. ASSUME NEW x, x = s \/ x = t
        PROVE  RealRule(rules, x, r) =
                 IF r.op \in {"Protect", "DefProt"} THEN Set(x)
                 ELSE IF r.op = "Exec" THEN At(Exec(rules, x.e, path))
                 ELSE IF r.op \in {"Redirect", "Moved"} THEN At(Redirect(r, x.e, path))
                 ELSE IF r.op = "Pass" THEN At(Passed(x.e, path, FALSE))
                 ELSE IF r.op = "Map" \/ path \in UserDir THEN Going(x)
                 ELSE At(Refused(x.e, "BY_RULE"))
    BY <1>2, <2>1, <2>5 DEF RealRule
  <2> HIDE DEF path, At, Going, Set
  <2>6. CASE r.op \in {"Protect", "DefProt"}
    BY <2>4, <2>5, <2>6
  <2>7. CASE r.op = "Exec"
    BY <2>1, <2>2, <2>5, <2>7, ExecAlike
  <2>8. CASE r.op \in {"Redirect", "Moved"}
    BY <2>1, <2>2, <2>5, <2>8, RedirectAlike
  <2>9. CASE r.op = "Pass"
    BY <2>1, <2>2, <2>5, <2>9, PassedAlike
  <2>10. CASE r.op \notin {"Protect", "DefProt", "Exec", "Redirect", "Moved", "Pass"}
              /\ (r.op = "Map" \/ path \in UserDir)
    <3>1. RealRule(rules, s, r) = Going(s) /\ RealRule(rules, t, r) = Going(t)
      BY <2>5, <2>10
    <3> QED
      BY <2>3, <3>1
  <2>11. CASE r.op \notin {"Protect", "DefProt", "Exec", "Redirect", "Moved", "Pass"}
              /\ ~(r.op = "Map" \/ path \in UserDir)
    BY <2>1, <2>2, <2>5, <2>11, RefusedAlike
  <2> QED
    BY <2>6, <2>7, <2>8, <2>9, <2>10, <2>11
<1> QED
  BY <1>1, <1>2

\* HTTranslateReq: the same URL is translated to the same, whatever an earlier URL left,
\* and what it is protected by stays in force.
LEMMA TranslatedAlike ==
    ASSUME NEW rules, Len(rules) \in Nat, NEW f, NEW a, Alike(f, a)
    PROVE  Alike(HTTranslateReq(rules, f), HTTranslateReq(rules, a))
<1> DEFINE n == Len(rules)
           s == RealLoop(rules, f)
           t == RealLoop(rules, a)
           T == {i \in 0 .. n : RealPair(s[i], t[i])}
<1>1. /\ s = [i \in 0 .. n |->
                 IF i = 0 THEN [e |-> f, path |-> f.HTReqArgPath, done |-> FALSE]
                 ELSE RealRule(rules, s[i - 1], rules[i])]
      /\ t = [i \in 0 .. n |->
                 IF i = 0 THEN [e |-> a, path |-> a.HTReqArgPath, done |-> FALSE]
                 ELSE RealRule(rules, t[i - 1], rules[i])]
  BY RealLoopIs
<1> HIDE DEF s, t
<1>2. n \in Nat /\ n \in 0 .. n
  OBVIOUS
<1>3. /\ s[0] = [e |-> f, path |-> f.HTReqArgPath, done |-> FALSE]
      /\ t[0] = [e |-> a, path |-> a.HTReqArgPath, done |-> FALSE]
  BY <1>1, <1>2
<1>4. 0 \in T
  <2>1. RealPair(s[0], t[0])
    BY <1>3 DEF RealPair, IsState, Alike
  <2> QED
    BY <1>2, <2>1
<1>5. ASSUME NEW i \in 1 .. n, i - 1 \in T PROVE i \in T
  <2>1. i \in 0 .. n /\ i # 0
    BY <1>2
  <2>2. RealPair(s[i - 1], t[i - 1])
    BY <1>5
  <2> HIDE DEF T
  <2>3. s[i] = RealRule(rules, s[i - 1], rules[i]) /\ t[i] = RealRule(rules, t[i - 1], rules[i])
    BY <1>1, <2>1
  <2>4. RealPair(s[i], t[i])
    BY <2>2, <2>3, RealRulePair
  <2> QED
    BY <2>1, <2>4 DEF T
<1>6. n \in T
  <2> HIDE DEF T, n
  <2> QED
    BY <1>2, <1>4, <1>5, UpTo
<1>7. RealPair(s[n], t[n])
  BY <1>6
<1>8. /\ HTTranslateReq(rules, f) = Ended(s[n], FALSE)
      /\ HTTranslateReq(rules, a) = Ended(t[n], FALSE)
  BY DEF HTTranslateReq, s, t, n
<1> HIDE DEF n
<1>9. /\ s[n].done = t[n].done /\ s[n].path = t[n].path /\ Alike(s[n].e, t[n].e)
  BY <1>7 DEF RealPair
<1>10. Alike(AfterRules(s[n].e, s[n].path, FALSE), AfterRules(t[n].e, t[n].path, FALSE))
  BY <1>9, AfterRulesAlike
<1> QED
  BY <1>8, <1>9, <1>10 DEF Ended

\* A rule maps paths to paths and does not have documents served as root.
RuleRight(r) ==
    /\ \A p \in Path : Mapped(r, p) \in Path
    /\ r.setup # None => r.setup.ids # "root"

\* HTIds is that of the set-up in force, and it is not root.
IdsRight(e) ==
    /\ e.HTIds # None => e.HTIds # "root"
    /\ e.HTDefProt # None => e.HTDefProt.ids # "root"
    /\ e.HTProt # None => /\ e.HTProt.ids # "root"
                          /\ e.HTProt.ids # None => e.HTIds = e.HTProt.ids

\* What HTTranslateReq leaves: a script, a translation, or a reason why not.
Settled(e) ==
    e.HTReqScript # None \/ e.HTReqTranslated # None \/ e.HTReason \in RuleReasons \ {"OK"}

\* What an environment that is translated keeps.
Kept(e, f) == DOMAIN f = Fields /\ f.HTReqArg = e.HTReqArg /\ IdsRight(f)

\* The states of a run of environment e.
Sound(e, s) ==
    /\ IsState(s) /\ Kept(e, s.e)
    /\ e.HTReqArgPath \in Path => s.path \in Path /\ (s.done => Settled(s.e))

\* A Protect rule puts in force the identity of its set-up.
LEMMA SetProtectionSound ==
    ASSUME NEW r, RuleRight(r), NEW e, NEW f, Kept(e, f)
    PROVE  Kept(e, SetProtection(r, f))
<1>1. CASE r.op = "DefProt"
  BY <1>1 DEF SetProtection, Kept, IdsRight, Fields, RuleRight
<1>2. CASE r.op # "DefProt" /\ r.setup # None
  BY <1>2 DEF SetProtection, Kept, IdsRight, Fields, RuleRight
<1>3. CASE r.op # "DefProt" /\ r.setup = None /\ f.HTDefProt # None /\ f.HTDefProt.ids # None
  BY <1>3 DEF SetProtection, Kept, IdsRight, Fields
<1>4. CASE r.op # "DefProt" /\ r.setup = None /\ f.HTDefProt # None /\ f.HTDefProt.ids = None
  BY <1>4 DEF SetProtection, Kept, IdsRight, Fields
<1>5. CASE r.op # "DefProt" /\ r.setup = None /\ f.HTDefProt = None
  BY <1>5 DEF SetProtection, Kept, IdsRight, Fields
<1> QED
  BY <1>1, <1>2, <1>3, <1>4, <1>5

\* What leaves the protection alone keeps it right.
LEMMA UntouchedKept ==
    ASSUME NEW e, NEW f, NEW g, Kept(e, f), Untouched(f, g), DOMAIN g = Fields
    PROVE  Kept(e, g)
BY DEF Untouched, Kept, IdsRight

\* What is passed has a translation, a redirection or a reason.
LEMMA PassedSound ==
    ASSUME NEW e, NEW f, Kept(e, f), NEW path
    PROVE  /\ Kept(e, Passed(f, path, FALSE))
           /\ path # None => Settled(Passed(f, path, FALSE))
<1>1. DOMAIN f = Fields
  BY DEF Kept
<1>2. path # None => Settled(Passed(f, path, FALSE))
  BY <1>1 DEF Passed, Settled, Fields, RuleReasons
<1> QED
  BY <1>1, <1>2, PassedKeeps, UntouchedKept

\* What is refused has a reason.
LEMMA RefusedSound ==
    ASSUME NEW e, NEW f, Kept(e, f)
    PROVE  Kept(e, Refused(f, "BY_RULE")) /\ Settled(Refused(f, "BY_RULE"))
BY DEF Kept, IdsRight, Settled, Refused, Fields, RuleReasons

\* What is redirected has a reason.
LEMMA RedirectSound ==
    ASSUME NEW e, NEW f, Kept(e, f), NEW r, NEW path
    PROVE  Kept(e, Redirect(r, f, path)) /\ Settled(Redirect(r, f, path))
BY DEF Kept, IdsRight, Settled, Redirect, Refused, Fields, RuleReasons

\* What is executed has a script.
LEMMA ExecSound ==
    ASSUME NEW rules, Len(rules) \in Nat, NEW e, NEW f, Kept(e, f), NEW path
    PROVE  /\ Kept(e, Exec(rules, f, path))
           /\ ScriptName[path] # None => Settled(Exec(rules, f, path))
<1>1. DOMAIN f = Fields
  BY DEF Kept
<1>2. Kept(e, Call(f, path)) /\ Call(f, path).HTReqScript = ScriptName[path]
  BY DEF Kept, Call, IdsRight, Fields
<1>3. /\ DOMAIN Exec(rules, f, path) = Fields
      /\ Untouched(Call(f, path), Exec(rules, f, path))
  BY <1>1, ExecKeeps
<1> QED
  BY <1>2, <1>3, UntouchedKept DEF Untouched, Settled

\* Every rule keeps a state sound.
LEMMA RealRuleSound ==
    ASSUME NEW rules, Len(rules) \in Nat, NEW r, RuleRight(r),
           None \notin Path, \A p \in Path : ScriptName[p] # None,
           NEW e, NEW s, Sound(e, s)
    PROVE  Sound(e, RealRule(rules, s, r))
<1>1. CASE s.done \/ s.path \notin r.pat
  BY <1>1 DEF RealRule
<1>2. CASE ~(s.done \/ s.path \notin r.pat)
  <2> DEFINE path == Mapped(r, s.path)
             At(f) == [e |-> f, path |-> path, done |-> TRUE]
             Going == [s EXCEPT !.path = path]
             Set == [s EXCEPT !.e = SetProtection(r, s.e), !.path = path]
  <2>1. Kept(e, s.e) /\ (e.HTReqArgPath \in Path => path \in Path)
    BY DEF Sound, RuleRight
  <2>2. ASSUME NEW f, Kept(e, f), e.HTReqArgPath \in Path => Settled(f)
        PROVE  Sound(e, At(f))
    <3>1. IsState(At(f)) /\ At(f).e = f /\ At(f).path = path
      BY <2>2 DEF IsState, Kept
    <3> HIDE DEF At
    <3> QED
      BY <2>1, <2>2, <3>1 DEF Sound
  <2>3. Sound(e, Going)
    <3>1. IsState(Going) /\ Going.e = s.e /\ Going.path = path /\ Going.done = s.done
      BY DEF Sound, IsState
    <3> HIDE DEF Going, path
    <3> QED
      BY <1>2, <2>1, <3>1 DEF Sound
  <2>4. Sound(e, Set)
    <3>1. Kept(e, SetProtection(r, s.e))
      BY <2>1, SetProtectionSound
    <3>2. IsState(Set) /\ Set.e = SetProtection(r, s.e) /\ Set.path = path /\ Set.done = s.done
      BY <3>1 DEF Sound, IsState, Kept
    <3> HIDE DEF Set, path
    <3> QED
      BY <1>2, <2>1, <3>1, <3>2 DEF Sound
  <2>5. RealRule(rules, s, r) =
                 IF r.op \in {"Protect", "DefProt"} THEN Set
                 ELSE IF r.op = "Exec" THEN At(Exec(rules, s.e, path))
                 ELSE IF r.op \in {"Redirect", "Moved"} THEN At(Redirect(r, s.e, path))
                 ELSE IF r.op = "Pass" THEN At(Passed(s.e, path, FALSE))
                 ELSE IF r.op = "Map" \/ path \in UserDir THEN Going
                 ELSE At(Refused(s.e, "BY_RULE"))
    BY <1>2 DEF RealRule
  <2> HIDE DEF path, At, Going, Set
  <2>6. CASE r.op \in {"Protect", "DefProt"}
    BY <2>4, <2>5, <2>6
  <2>7. CASE r.op = "Exec"
    <3>1. Sound(e, At(Exec(rules, s.e, path)))
      BY <2>1, <2>2, ExecSound
    <3> QED
      BY <2>5, <2>7, <3>1
  <2>8. CASE r.op \in {"Redirect", "Moved"}
    <3>1. Sound(e, At(Redirect(r, s.e, path)))
      BY <2>1, <2>2, RedirectSound
    <3> QED
      BY <2>5, <2>8, <3>1
  <2>9. CASE r.op = "Pass"
    <3>1. Sound(e, At(Passed(s.e, path, FALSE)))
      BY <2>1, <2>2, PassedSound
    <3> QED
      BY <2>5, <2>9, <3>1
  <2>10. CASE r.op \notin {"Protect", "DefProt", "Exec", "Redirect", "Moved", "Pass"}
              /\ (r.op = "Map" \/ path \in UserDir)
    BY <2>3, <2>5, <2>10
  <2>11. CASE r.op \notin {"Protect", "DefProt", "Exec", "Redirect", "Moved", "Pass"}
              /\ ~(r.op = "Map" \/ path \in UserDir)
    <3>1. Sound(e, At(Refused(s.e, "BY_RULE")))
      BY <2>1, <2>2, RefusedSound
    <3> QED
      BY <2>5, <2>11, <3>1
  <2> QED
    BY <2>6, <2>7, <2>8, <2>9, <2>10, <2>11
<1> QED
  BY <1>1, <1>2

\* HTTranslateReq: the loop always ends in a script, a translation or a reason, and the
\* identity is that of the set-up in force.
THEOREM TranslatedSound ==
    ASSUME NEW rules, Len(rules) \in Nat, \A i \in 1 .. Len(rules) : RuleRight(rules[i]),
           None \notin Path, \A p \in Path : ScriptName[p] # None,
           NEW e, DOMAIN e = Fields, IdsRight(e)
    PROVE  /\ Kept(e, HTTranslateReq(rules, e))
           /\ e.HTReqArgPath \in Path => Settled(HTTranslateReq(rules, e))
<1> DEFINE n == Len(rules)
           s == RealLoop(rules, e)
           T == {i \in 0 .. n : Sound(e, s[i])}
<1>1. s = [i \in 0 .. n |->
             IF i = 0 THEN [e |-> e, path |-> e.HTReqArgPath, done |-> FALSE]
             ELSE RealRule(rules, s[i - 1], rules[i])]
  BY RealLoopIs
<1> HIDE DEF s
<1>2. n \in Nat /\ n \in 0 .. n
  OBVIOUS
<1>3. s[0] = [e |-> e, path |-> e.HTReqArgPath, done |-> FALSE]
  BY <1>1, <1>2
<1>4. 0 \in T
  <2>1. Sound(e, s[0])
    BY <1>3 DEF Sound, IsState, Kept
  <2> QED
    BY <1>2, <2>1
<1>5. ASSUME NEW i \in 1 .. n, i - 1 \in T PROVE i \in T
  <2>1. i \in 0 .. n /\ i # 0
    BY <1>2
  <2>2. Sound(e, s[i - 1])
    BY <1>5
  <2> HIDE DEF T
  <2>3. s[i] = RealRule(rules, s[i - 1], rules[i])
    BY <1>1, <2>1
  <2>4. RuleRight(rules[i])
    OBVIOUS
  <2>5. Sound(e, s[i])
    BY <2>2, <2>3, <2>4, RealRuleSound
  <2> QED
    BY <2>1, <2>5 DEF T
<1>6. n \in T
  <2> HIDE DEF T, n
  <2> QED
    BY <1>2, <1>4, <1>5, UpTo
<1>7. Sound(e, s[n])
  BY <1>6
<1>8. HTTranslateReq(rules, e) = Ended(s[n], FALSE)
  BY DEF HTTranslateReq, s, n
<1> HIDE DEF n, T
<1>9. CASE s[n].done
  BY <1>7, <1>8, <1>9 DEF Ended, Sound
<1>10. CASE ~s[n].done
  <2> DEFINE f == s[n].e
             none == [f EXCEPT !.HTReqTranslated = None]
  <2>1. Kept(e, f) /\ HTTranslateReq(rules, e) = AfterRules(f, s[n].path, FALSE)
        /\ (e.HTReqArgPath \in Path => s[n].path # None)
    BY <1>7, <1>8, <1>10 DEF Ended, Sound
  <2> HIDE DEF f
  <2>2. Kept(e, none)
    BY <2>1 DEF Kept, IdsRight, Fields
  <2> HIDE DEF none
  <2>3. AfterRules(f, s[n].path, FALSE) = IF s[n].path \in UserDir THEN Passed(f, s[n].path, FALSE)
                                          ELSE Refused(none, "BY_RULE")
    BY DEF AfterRules, none
  <2>4. CASE s[n].path \in UserDir
    BY <2>1, <2>3, <2>4, PassedSound
  <2>5. CASE s[n].path \notin UserDir
    BY <2>1, <2>2, <2>3, <2>5, RefusedSound
  <2> QED
    BY <2>4, <2>5
<1> QED
  BY <1>9, <1>10

-----------------------------------------------------------------------------
(* The authorisation.                                                      *)

\* What it leaves alone of an environment.
Passes(e, f) ==
    /\ Kept(e, f)
    /\ f.HTReqScript = e.HTReqScript /\ f.HTReqTranslated = e.HTReqTranslated

\* A reason changes nothing else.
LEMMA BecausePasses ==
    ASSUME NEW e, NEW f, Passes(e, f), NEW why
    PROVE  /\ Passes(e, Because(f, why))
           /\ Because(f, why).HTReason = why /\ Because(f, why).HTProt = f.HTProt
BY DEF Passes, Kept, IdsRight, Because, Fields

\* The authentication sets the user only.
LEMMA AuthenticatePasses ==
    ASSUME NEW e, NEW f, Passes(e, f), NEW cred
    PROVE  Passes(e, Authenticate(f, cred)) /\ Authenticate(f, cred).HTProt = f.HTProt
BY DEF Passes, Kept, IdsRight, Authenticate, Fields

\* A verdict sets the reason only.
LEMMA JudgedPasses ==
    ASSUME NEW e, NEW f, Passes(e, f), NEW mask, NEW no_acls \in BOOLEAN
    PROVE  /\ Passes(e, Judged(f, mask, no_acls))
           /\ Judged(f, mask, no_acls).HTProt = f.HTProt
BY BecausePasses DEF Judged, Allowed

\* The verdict of a mask; without a set-up nothing is changed on the server.
LEMMA ByMaskPasses ==
    ASSUME NEW e, NEW f, Passes(e, f), NEW method, NEW cred, NEW no_acls \in BOOLEAN
    PROVE  LET g == ByMask(f, method, cred, no_acls) IN
           /\ Passes(e, g) /\ g.HTProt = f.HTProt
           /\ method \in {"PUT", "DELETE"} /\ f.HTProt = None => g.HTReason = "NOT_ALLOWED"
<1>1. CASE f.HTProt = None
  BY <1>1, BecausePasses DEF ByMask, Allowed
<1>2. CASE f.HTProt # None
  BY <1>2, BecausePasses, AuthenticatePasses, JudgedPasses DEF ByMask
<1> QED
  BY <1>1, <1>2

\* The verdict of an access control list, which needs a set-up.
LEMMA ByAclPasses ==
    ASSUME NEW e, NEW f, Passes(e, f), NEW method, NEW cred, NEW entries
    PROVE  LET g == ByAcl(f, method, cred, entries) IN
           /\ Passes(e, g) /\ g.HTProt = f.HTProt
           /\ f.HTProt = None => g.HTReason = "SETUP_ERROR"
<1>1. CASE f.HTProt = None
  BY <1>1, BecausePasses DEF ByAcl
<1>2. CASE f.HTProt # None
  BY <1>2, BecausePasses, AuthenticatePasses DEF ByAcl, ByEntries
<1> QED
  BY <1>1, <1>2

\* The default set-up has its identity put in force with it.
LEMMA NeedsSetupPasses ==
    ASSUME NEW e, NEW f, Passes(e, f), NEW need \in BOOLEAN
    PROVE  Passes(e, NeedsSetup(f, need))
<1>1. CASE ~(need /\ f.HTProt = None)
  BY <1>1 DEF NeedsSetup
<1>2. CASE need /\ f.HTProt = None
  <2>1. Passes(e, UseDefault(f))
    BY DEF Passes, Kept, IdsRight, UseDefault, Fields
  <2> QED
    BY <1>2, <2>1 DEF NeedsSetup
<1> QED
  BY <1>1, <1>2

\* The user is asked anew.
Fresher(e) == [e EXCEPT !.HTUser = None]

\* check_authorization by its cases.
LEMMA CheckIs ==
    ASSUME NEW e, NEW method, NEW cred, NEW no_acls
    PROVE  check_authorization(e, method, cred, no_acls) =
             LET f == NeedsSetup(Fresher(e), method \in {"PUT", "DELETE"}) IN
             IF Checked(e) = None THEN Because(f, "BY_RULE")
             ELSE IF no_acls \/ Acl[Checked(e)] = None THEN ByMask(f, method, cred, no_acls)
             ELSE ByAcl(NeedsSetup(f, TRUE), method, cred, Acl[Checked(e)][method])
BY DEF check_authorization, ByListOrMask, Fresher

\* check_authorization does not admit a change without a set-up, and puts no other set-up
\* in force where it is not needed.
LEMMA CheckPasses ==
    ASSUME NEW e, DOMAIN e = Fields, IdsRight(e), NEW method, NEW cred, NEW no_acls \in BOOLEAN
    PROVE  LET g == check_authorization(e, method, cred, no_acls) IN
           /\ Passes(e, g)
           /\ method \in {"PUT", "DELETE"} /\ g.HTReason \in {"OK", "OK_GATEWAY"} => g.HTProt # None
           /\ (method \notin {"PUT", "DELETE"} /\ (no_acls \/ Acl[Checked(e)] = None)) => g.HTProt = e.HTProt
<1> DEFINE f == NeedsSetup(Fresher(e), method \in {"PUT", "DELETE"})
           g == check_authorization(e, method, cred, no_acls)
<1>1. Passes(e, Fresher(e)) /\ Fresher(e).HTProt = e.HTProt
  BY DEF Passes, Kept, IdsRight, Fresher, Fields
<1>2. Passes(e, f)
  <2>1. (method \in {"PUT", "DELETE"}) \in BOOLEAN
    OBVIOUS
  <2> QED
    BY <1>1, <2>1, NeedsSetupPasses
<1>3. method \notin {"PUT", "DELETE"} => f.HTProt = e.HTProt
  BY <1>1 DEF NeedsSetup
<1>4. g = IF Checked(e) = None THEN Because(f, "BY_RULE")
          ELSE IF no_acls \/ Acl[Checked(e)] = None THEN ByMask(f, method, cred, no_acls)
          ELSE ByAcl(NeedsSetup(f, TRUE), method, cred, Acl[Checked(e)][method])
  BY CheckIs
<1> HIDE DEF f, g
<1>5. CASE Checked(e) = None
  BY <1>2, <1>3, <1>4, <1>5, BecausePasses DEF g
<1>6. CASE Checked(e) # None /\ (no_acls \/ Acl[Checked(e)] = None)
  <2>1. g = ByMask(f, method, cred, no_acls)
    BY <1>4, <1>6
  <2>2. Passes(e, g) /\ g.HTProt = f.HTProt
        /\ (method \in {"PUT", "DELETE"} /\ f.HTProt = None => g.HTReason = "NOT_ALLOWED")
    BY <1>2, <2>1, ByMaskPasses
  <2> QED
    BY <1>3, <2>2 DEF g
<1>7. CASE Checked(e) # None /\ ~(no_acls \/ Acl[Checked(e)] = None)
  <2> DEFINE h == NeedsSetup(f, TRUE)
  <2>1. g = ByAcl(h, method, cred, Acl[Checked(e)][method])
    BY <1>4, <1>7
  <2>2. Passes(e, h)
    BY <1>2, NeedsSetupPasses
  <2> HIDE DEF h
  <2>3. Passes(e, g) /\ g.HTProt = h.HTProt /\ (h.HTProt = None => g.HTReason = "SETUP_ERROR")
    BY <2>1, <2>2, ByAclPasses
  <2> QED
    BY <1>7, <2>3 DEF g
<1> QED
  BY <1>5, <1>6, <1>7

\* Two environments that differ in what an earlier URL left.
LEMMA CheckAlike ==
    ASSUME NEW f, NEW a, Alike(f, a), NEW method, method \notin {"PUT", "DELETE"}, NEW cred,
           NEW no_acls \in BOOLEAN, f.HTProt # None, no_acls \/ Acl[Checked(f)] = None
    PROVE  check_authorization(a, method, cred, no_acls).HTReason =
             check_authorization(f, method, cred, no_acls).HTReason
<1> DEFINE F == Fresher(f)
           A == Fresher(a)
           why(m, u) == IF m[u] = "OK" THEN (IF no_acls THEN "OK_GATEWAY" ELSE "OK") ELSE m[u]
<1>1. Checked(a) = Checked(f) /\ a.HTProt = f.HTProt /\ DOMAIN f = Fields /\ DOMAIN a = Fields
  BY DEF Alike, Checked
<1>2. /\ check_authorization(f, method, cred, no_acls) =
           IF Checked(f) = None THEN Because(F, "BY_RULE") ELSE ByMask(F, method, cred, no_acls)
      /\ check_authorization(a, method, cred, no_acls) =
           IF Checked(f) = None THEN Because(A, "BY_RULE") ELSE ByMask(A, method, cred, no_acls)
  BY <1>1, CheckIs DEF NeedsSetup
<1>3. /\ F.HTProt = f.HTProt /\ A.HTProt = f.HTProt
      /\ DOMAIN F = Fields /\ DOMAIN A = Fields
  BY <1>1 DEF Fresher, Fields
<1> HIDE DEF F, A
<1>4. ASSUME NEW x, DOMAIN x = Fields, x.HTProt = f.HTProt
      PROVE  /\ Because(x, "BY_RULE").HTReason = "BY_RULE"
             /\ ByMask(x, method, cred, no_acls).HTReason =
                  IF Mask(f.HTProt, method) = None THEN "NO_ACL"
                  ELSE why(Mask(f.HTProt, method), IF cred \in f.HTProt.passwd THEN cred ELSE None)
  <2>1. ASSUME NEW y, DOMAIN y = Fields, NEW reason PROVE Because(y, reason).HTReason = reason
    BY <2>1 DEF Because, Fields
  <2>2. DOMAIN Authenticate(x, cred) = Fields
        /\ Authenticate(x, cred).HTUser = IF cred \in f.HTProt.passwd THEN cred ELSE None
    BY <1>4 DEF Authenticate, Fields
  <2>3. ASSUME NEW y, DOMAIN y = Fields, NEW mask
        PROVE  Judged(y, mask, no_acls).HTReason = why(mask, y.HTUser)
    BY <2>1, <2>3 DEF Judged, Allowed
  <2> HIDE DEF why
  <2>4. ByMask(x, method, cred, no_acls) =
          IF Mask(f.HTProt, method) = None THEN Because(x, "NO_ACL")
          ELSE Judged(Authenticate(x, cred), Mask(f.HTProt, method), no_acls)
    BY <1>4 DEF ByMask
  <2>5. Because(x, "BY_RULE").HTReason = "BY_RULE" /\ Because(x, "NO_ACL").HTReason = "NO_ACL"
    BY <1>4, <2>1
  <2>6. Judged(Authenticate(x, cred), Mask(f.HTProt, method), no_acls).HTReason =
          why(Mask(f.HTProt, method), IF cred \in f.HTProt.passwd THEN cred ELSE None)
    BY <2>2, <2>3
  <2> QED
    BY <2>4, <2>5, <2>6
<1> HIDE DEF why
<1> QED
  BY <1>2, <1>3, <1>4

\* The environment under whose name the request is authorised: for a local file, the name
\* that HTMulti has found.
Named(remote, files, e, method) ==
    IF Translated(e) /\ e.HTReqScript = None /\ e.HTReqTranslated \notin remote
    THEN Physical(e, files[e.HTReqTranslated], method)
    ELSE e

\* The name of the file is all that HTMulti changes.
LEMMA NamedKeeps ==
    ASSUME NEW remote, NEW files, NEW e, DOMAIN e = Fields, NEW method
    PROVE  LET x == Named(remote, files, e, method) IN
           /\ DOMAIN x = Fields
           /\ x.HTReqArg = e.HTReqArg /\ x.HTReqScript = e.HTReqScript /\ x.HTReason = e.HTReason
           /\ x.HTReasonLine = e.HTReasonLine
           /\ x.HTUser = e.HTUser /\ x.HTProt = e.HTProt
           /\ x.HTDefProt = e.HTDefProt /\ x.HTIds = e.HTIds
           /\ e.HTReqTranslated # None => x.HTReqTranslated # None
BY DEF Named, Physical, Fields

\* So the identities stay right, and what is settled stays settled.
LEMMA NamedKept ==
    ASSUME NEW remote, NEW files, NEW e, DOMAIN e = Fields, IdsRight(e), NEW method
    PROVE  LET x == Named(remote, files, e, method) IN
           Kept(e, x) /\ IdsRight(x) /\ (Settled(e) => Settled(x))
<1> DEFINE x == Named(remote, files, e, method)
<1>1. /\ DOMAIN x = Fields
      /\ x.HTReqArg = e.HTReqArg /\ x.HTReqScript = e.HTReqScript /\ x.HTReason = e.HTReason
      /\ x.HTProt = e.HTProt /\ x.HTDefProt = e.HTDefProt /\ x.HTIds = e.HTIds
      /\ e.HTReqTranslated # None => x.HTReqTranslated # None
  BY NamedKeeps
<1> HIDE DEF x
<1>2. IdsRight(x)
  BY <1>1 DEF IdsRight
<1>3. Kept(e, x)
  BY <1>1, <1>2 DEF Kept
<1>4. Settled(e) => Settled(x)
  BY <1>1 DEF Settled
<1> QED
  BY <1>2, <1>3, <1>4 DEF x

\* A directory that is answered with the URL of its welcome page.
ToWelcome(found, method) == Looks(method) /\ found \in Welcome /\ AlwaysWelcome

\* That answer.
Moved(e) == [e EXCEPT !.HTReason = "OK_REDIRECT", !.HTLocation = WithSlash[e.HTReqArg]]

\* The authorisation by its cases.
LEMMA AuthoriseIs ==
    ASSUME NEW remote, NEW files, NEW e, NEW method, NEW cred
    PROVE  LET x == Named(remote, files, e, method)
               found == files[e.HTReqTranslated]
           IN  Authorise(remote, files, e, method, cred) =
                 IF ~Translated(e) THEN x
                 ELSE IF e.HTReqScript # None THEN check_authorization(x, method, cred, FALSE)
                 ELSE IF e.HTReqTranslated \in remote
                 THEN ForProxy(check_authorization(x, method, cred, TRUE))
                 ELSE IF ToWelcome(found, method) THEN Moved(x)
                 ELSE Reported(check_authorization(x, method, cred, FALSE), found, method)
<1>1. CASE ~Translated(e) \/ e.HTReqScript # None \/ e.HTReqTranslated \in remote
  <2>1. Named(remote, files, e, method) = e
    BY <1>1 DEF Named
  <2> QED
    BY <1>1, <2>1, Zenon DEF Authorise
<1>2. CASE ~(~Translated(e) \/ e.HTReqScript # None \/ e.HTReqTranslated \in remote)
  <2>1. Named(remote, files, e, method) = Physical(e, files[e.HTReqTranslated], method)
    BY <1>2 DEF Named
  <2> QED
    BY <1>2, <2>1, Zenon DEF Authorise, LocalFile, AuthoriseFound, ToWelcome, Moved
<1> QED
  BY <1>1, <1>2

\* The same of the authorisation of scripts, remote URLs and local files.
LEMMA AuthorisePasses ==
    ASSUME NEW remote, NEW files, NEW e, DOMAIN e = Fields, IdsRight(e), NEW method, NEW cred
    PROVE  LET x == Named(remote, files, e, method)
               g == Authorise(remote, files, e, method, cred)
           IN
           /\ Kept(e, x) /\ Passes(x, g)
           /\ Settled(e) /\ method \in {"PUT", "DELETE"} /\ g.HTReason \in {"OK", "OK_GATEWAY"} => g.HTProt # None
           /\ (method \notin {"PUT", "DELETE"} /\ Acl[Checked(x)] = None) => g.HTProt = e.HTProt
<1> DEFINE x == Named(remote, files, e, method)
           found == files[e.HTReqTranslated]
           g == Authorise(remote, files, e, method, cred)
           c == check_authorization(x, method, cred, FALSE)
           d == check_authorization(x, method, cred, TRUE)
<1>0. /\ Kept(e, x) /\ IdsRight(x) /\ DOMAIN x = Fields /\ (Settled(e) => Settled(x))
      /\ x.HTProt = e.HTProt /\ x.HTReqScript = e.HTReqScript /\ x.HTReason = e.HTReason
      /\ (e.HTReqTranslated # None => x.HTReqTranslated # None)
  BY NamedKeeps, NamedKept
<1>4. g = IF ~Translated(e) THEN x
          ELSE IF e.HTReqScript # None THEN c
          ELSE IF e.HTReqTranslated \in remote THEN ForProxy(d)
          ELSE IF ToWelcome(found, method) THEN Moved(x)
          ELSE Reported(c, found, method)
  BY AuthoriseIs
<1>5. ~Translated(e) => x = e
  BY DEF Named
<1> DEFINE Right ==
        /\ Passes(x, g)
        /\ Settled(e) /\ method \in {"PUT", "DELETE"} /\ g.HTReason \in {"OK", "OK_GATEWAY"} => g.HTProt # None
        /\ (method \notin {"PUT", "DELETE"} /\ Acl[Checked(x)] = None) => g.HTProt = x.HTProt
<1> SUFFICES Right
  BY <1>0
<1> HIDE DEF x
<1>1. Passes(x, x)
  BY <1>0 DEF Passes, Kept
<1>2. /\ Passes(x, c)
      /\ method \in {"PUT", "DELETE"} /\ c.HTReason \in {"OK", "OK_GATEWAY"} => c.HTProt # None
      /\ (method \notin {"PUT", "DELETE"} /\ Acl[Checked(x)] = None) => c.HTProt = x.HTProt
  BY <1>0, CheckPasses
<1>3. /\ Passes(x, d)
      /\ method \in {"PUT", "DELETE"} /\ d.HTReason \in {"OK", "OK_GATEWAY"} => d.HTProt # None
      /\ (method \notin {"PUT", "DELETE"} /\ Acl[Checked(x)] = None) => d.HTProt = x.HTProt
  BY <1>0, CheckPasses
<1> HIDE DEF c, d, g
<1>6. CASE ~Translated(e)
  <2>1. g = x /\ x = e
    BY <1>4, <1>5, <1>6
  <2>2. Settled(e) => g.HTReason \notin {"OK", "OK_GATEWAY"}
    BY <1>6, <2>1 DEF Translated, Settled, RuleReasons
  <2> QED
    BY <1>1, <2>1, <2>2
<1>7. CASE Translated(e) /\ e.HTReqScript # None
  <2>1. g = c
    BY <1>4, <1>7
  <2> QED
    BY <1>2, <2>1
<1>8. CASE Translated(e) /\ e.HTReqScript = None /\ e.HTReqTranslated \in remote
  <2>1. g = ForProxy(d)
    BY <1>4, <1>8
  <2> QED
    BY <1>3, <2>1, BecausePasses DEF ForProxy
<1>9. CASE Translated(e) /\ e.HTReqScript = None /\ e.HTReqTranslated \notin remote
  <2>1. CASE ToWelcome(found, method)
    <3>1. g = Moved(x)
      BY <1>4, <1>9, <2>1
    <3>2. Passes(x, g) /\ g.HTProt = x.HTProt /\ g.HTReason = "OK_REDIRECT"
      BY <1>1, <3>1 DEF Passes, Kept, IdsRight, Fields, Moved
    <3> QED
      BY <3>2
  <2>2. CASE ~ToWelcome(found, method)
    <3>1. g = Reported(c, found, method)
      BY <1>4, <1>9, <2>2
    <3> QED
      BY <1>2, <3>1, BecausePasses DEF Reported
  <2> QED
    BY <2>1, <2>2
<1> QED
  BY <1>6, <1>7, <1>8, <1>9

\* The environment has the same variables.
LEMMA CheckFields ==
    ASSUME NEW e, DOMAIN e = Fields, NEW method, NEW cred, NEW no_acls \in BOOLEAN
    PROVE  DOMAIN check_authorization(e, method, cred, no_acls) = Fields
<1> DEFINE P(f) == DOMAIN f = Fields
<1>1. ASSUME NEW f, P(f), NEW why PROVE P(Because(f, why))
  BY <1>1 DEF Because
<1>2. ASSUME NEW f, P(f) PROVE P(Authenticate(f, cred)) /\ P(UseDefault(f)) /\ P(Fresher(f))
  BY <1>2 DEF Authenticate, UseDefault, Fresher
<1> HIDE DEF P
<1>3. ASSUME NEW f, P(f), NEW need PROVE P(NeedsSetup(f, need))
  BY <1>2, <1>3 DEF NeedsSetup
<1>4. ASSUME NEW f, P(f), NEW mask PROVE P(Judged(f, mask, no_acls))
  BY <1>1, <1>4 DEF Judged, Allowed
<1>5. ASSUME NEW f, P(f) PROVE P(ByMask(f, method, cred, no_acls))
  <2>1. CASE f.HTProt = None
    BY <1>1, <1>5, <2>1 DEF ByMask, Allowed
  <2>2. CASE f.HTProt # None
    BY <1>1, <1>2, <1>4, <1>5, <2>2 DEF ByMask
  <2> QED
    BY <2>1, <2>2
<1>6. ASSUME NEW f, P(f), NEW entries PROVE P(ByAcl(f, method, cred, entries))
  <2>1. CASE f.HTProt = None
    BY <1>1, <1>6, <2>1 DEF ByAcl
  <2>2. CASE f.HTProt # None
    BY <1>1, <1>2, <1>6, <2>2 DEF ByAcl, ByEntries
  <2> QED
    BY <2>1, <2>2
<1>7. P(e)
  BY DEF P
<1> DEFINE f == NeedsSetup(Fresher(e), method \in {"PUT", "DELETE"})
<1>8. P(f) /\ P(NeedsSetup(f, TRUE))
  BY <1>2, <1>3, <1>7
<1>9. check_authorization(e, method, cred, no_acls) =
        IF Checked(e) = None THEN Because(f, "BY_RULE")
        ELSE IF no_acls \/ Acl[Checked(e)] = None THEN ByMask(f, method, cred, no_acls)
        ELSE ByAcl(NeedsSetup(f, TRUE), method, cred, Acl[Checked(e)][method])
  BY CheckIs
<1> HIDE DEF f
<1>10. P(check_authorization(e, method, cred, no_acls))
  BY <1>1, <1>5, <1>6, <1>8, <1>9
<1> QED
  BY <1>10 DEF P

\* The environment has the same variables.
LEMMA AuthoriseFields ==
    ASSUME NEW remote, NEW files, NEW e, DOMAIN e = Fields, NEW method, NEW cred
    PROVE  DOMAIN Authorise(remote, files, e, method, cred) = Fields
<1> DEFINE x == Named(remote, files, e, method)
           found == files[e.HTReqTranslated]
           c == check_authorization(x, method, cred, FALSE)
           d == check_authorization(x, method, cred, TRUE)
<1>1. Authorise(remote, files, e, method, cred) =
        IF ~Translated(e) THEN x
        ELSE IF e.HTReqScript # None THEN c
        ELSE IF e.HTReqTranslated \in remote THEN ForProxy(d)
        ELSE IF ToWelcome(found, method) THEN Moved(x)
        ELSE Reported(c, found, method)
  BY AuthoriseIs
<1>2. DOMAIN x = Fields
  BY NamedKeeps
<1> HIDE DEF x
<1>3. DOMAIN c = Fields /\ DOMAIN d = Fields
  BY <1>2, CheckFields
<1> HIDE DEF c, d
<1>4. ASSUME NEW f, DOMAIN f = Fields, NEW why PROVE DOMAIN Because(f, why) = Fields
  BY <1>4 DEF Because
<1>5. DOMAIN ForProxy(d) = Fields /\ DOMAIN Reported(c, found, method) = Fields
  BY <1>3, <1>4 DEF ForProxy, Reported
<1>6. DOMAIN Moved(x) = Fields
  BY <1>2 DEF Moved
<1> QED
  BY <1>1, <1>2, <1>3, <1>5, <1>6

\* HTMulti finds the same name for two environments that differ in what an earlier URL left.
LEMMA NamedAlike ==
    ASSUME NEW remote, NEW files, NEW f, NEW a, Alike(f, a), NEW method
    PROVE  Alike(Named(remote, files, f, method), Named(remote, files, a, method))
<1>1. Translated(a) = Translated(f) /\ a.HTReqScript = f.HTReqScript
      /\ a.HTReqTranslated = f.HTReqTranslated
  BY DEF Alike, Translated
<1>2. CASE Translated(f) /\ f.HTReqScript = None /\ f.HTReqTranslated \notin remote
           /\ Looks(method) /\ files[f.HTReqTranslated] # None
  <2> DEFINE n == files[f.HTReqTranslated]
  <2>1. /\ Named(remote, files, f, method) = [f EXCEPT !.HTReqTranslated = n]
        /\ Named(remote, files, a, method) = [a EXCEPT !.HTReqTranslated = n]
    BY <1>1, <1>2 DEF Named, Physical
  <2> HIDE DEF n
  <2>2. Alike([f EXCEPT !.HTReqTranslated = n], [a EXCEPT !.HTReqTranslated = n])
    BY DEF Alike, Fields
  <2> QED
    BY <2>1, <2>2
<1>3. CASE ~(Translated(f) /\ f.HTReqScript = None /\ f.HTReqTranslated \notin remote
             /\ Looks(method) /\ files[f.HTReqTranslated] # None)
  BY <1>1, <1>3 DEF Named, Physical
<1> QED
  BY <1>2, <1>3

\* The authorisation of two environments that differ in what an earlier URL left.
LEMMA AuthoriseAlike ==
    ASSUME NEW remote, NEW files, NEW f, NEW a, Alike(f, a), NEW method,
           method \notin {"PUT", "DELETE"}, NEW cred, f.HTProt # None,
           Acl[Checked(Named(remote, files, f, method))] = None
    PROVE  Authorise(remote, files, a, method, cred).HTReason =
             Authorise(remote, files, f, method, cred).HTReason
<1> DEFINE x == Named(remote, files, f, method)
           y == Named(remote, files, a, method)
           found == files[f.HTReqTranslated]
           c(e) == check_authorization(e, method, cred, FALSE)
           d(e) == check_authorization(e, method, cred, TRUE)
           Is(e, z) == Authorise(remote, files, e, method, cred) =
                         IF ~Translated(f) THEN z
                         ELSE IF f.HTReqScript # None THEN c(z)
                         ELSE IF f.HTReqTranslated \in remote THEN ForProxy(d(z))
                         ELSE IF ToWelcome(found, method) THEN Moved(z)
                         ELSE Reported(c(z), found, method)
<1>1. /\ Translated(a) = Translated(f) /\ a.HTReqScript = f.HTReqScript
      /\ a.HTReqTranslated = f.HTReqTranslated
      /\ DOMAIN f = Fields
  BY DEF Alike, Translated
<1>2. Is(f, x)
  BY AuthoriseIs
<1>3. Authorise(remote, files, a, method, cred) =
        IF ~Translated(a) THEN y
        ELSE IF a.HTReqScript # None THEN c(y)
        ELSE IF a.HTReqTranslated \in remote THEN ForProxy(d(y))
        ELSE IF ToWelcome(files[a.HTReqTranslated], method) THEN Moved(y)
        ELSE Reported(c(y), files[a.HTReqTranslated], method)
  BY AuthoriseIs
<1>4. Alike(x, y) /\ x.HTProt # None /\ Acl[Checked(x)] = None
  BY <1>1, NamedAlike, NamedKeeps
<1> HIDE DEF x, y
<1>5. Is(a, y)
  BY <1>1, <1>3
<1>6. x.HTReason = y.HTReason /\ DOMAIN x = Fields /\ DOMAIN y = Fields
  BY <1>4 DEF Alike
<1>7. \A no_acls \in BOOLEAN : check_authorization(y, method, cred, no_acls).HTReason =
                                check_authorization(x, method, cred, no_acls).HTReason
  BY <1>4, CheckAlike
<1>8. c(y).HTReason = c(x).HTReason /\ d(y).HTReason = d(x).HTReason
  BY <1>7
<1>9. DOMAIN c(x) = Fields /\ DOMAIN c(y) = Fields /\ DOMAIN d(x) = Fields /\ DOMAIN d(y) = Fields
  BY <1>6, CheckFields
<1>10. ASSUME NEW u, DOMAIN u = Fields, NEW v, DOMAIN v = Fields, u.HTReason = v.HTReason
       PROVE  /\ ForProxy(u).HTReason = ForProxy(v).HTReason
              /\ Reported(u, found, method).HTReason = Reported(v, found, method).HTReason
  BY <1>10 DEF ForProxy, Reported, Because, Fields
<1>11. Moved(x).HTReason = "OK_REDIRECT" /\ Moved(y).HTReason = "OK_REDIRECT"
  BY <1>6 DEF Moved, Fields
<1> HIDE DEF c, d, found
<1>12. /\ ForProxy(d(y)).HTReason = ForProxy(d(x)).HTReason
       /\ Reported(c(y), found, method).HTReason = Reported(c(x), found, method).HTReason
  BY <1>8, <1>9, <1>10
<1> QED
  BY <1>2, <1>5, <1>6, <1>8, <1>11, <1>12

\* The status code is set and nothing else.
LEMMA AnsweredIs ==
    ASSUME NEW e, NEW f, Passes(e, f), NEW code
    PROVE  /\ Passes(e, Answered(f, code))
           /\ Answered(f, code).status_code = code
           /\ Answered(f, code).HTReason = f.HTReason
           /\ Answered(f, code).HTProt = f.HTProt
BY DEF Passes, Kept, IdsRight, Answered, Fields

\* What is admitted, whatever the URL.
LEMMA Authorised ==
    ASSUME NEW rules, Len(rules) \in Nat, \A i \in 1 .. Len(rules) : RuleRight(rules[i]),
           None \notin Path, \A p \in Path : ScriptName[p] # None,
           NEW e, DOMAIN e = Fields, IdsRight(e),
           NEW remote, NEW files, NEW method, NEW cred
    PROVE  LET g == HTAA_checkAuthorization(remote, rules, files, e, method, cred) IN
           /\ Kept(e, g)
           /\ g.status_code = 200 => g.HTReason \in {"OK", "OK_GATEWAY"}
           /\ g.status_code \in {301, 302} => g.HTReason \in {"OK_MOVED", "OK_REDIRECT"}
           /\ (/\ g.status_code = 200 /\ method \in {"PUT", "DELETE"} /\ e.HTReqArgPath \in Path)
              => g.HTProt # None
<1> DEFINE g == HTAA_checkAuthorization(remote, rules, files, e, method, cred)
           t == HTTranslateReq(rules, e)
           u == Authorise(remote, files, t, method, cred)
<1>1. g = IF e.HTReqArg = None \/ e.HTReason # "OK" THEN Answered(e, 403)
          ELSE Answered(u, StatusOf(u.HTReason))
  BY DEF HTAA_checkAuthorization, Concluded
<1>2. Kept(e, t) /\ (e.HTReqArgPath \in Path => Settled(t))
  BY TranslatedSound
<1>3. DOMAIN t = Fields /\ IdsRight(t)
  BY <1>2 DEF Kept
<1> HIDE DEF t
<1> DEFINE x == Named(remote, files, t, method)
<1>4. /\ Kept(t, x) /\ Passes(x, u)
      /\ Settled(t) /\ method \in {"PUT", "DELETE"} /\ u.HTReason \in {"OK", "OK_GATEWAY"} => u.HTProt # None
  BY <1>3, AuthorisePasses
<1> HIDE DEF u, g, x
<1>5. CASE e.HTReqArg = None \/ e.HTReason # "OK"
  <2>1. Passes(e, e)
    BY DEF Passes, Kept
  <2>2. Passes(e, g) /\ g.status_code = 403
    BY <1>1, <1>5, <2>1, AnsweredIs
  <2> QED
    BY <2>2 DEF Passes, g
<1>6. CASE ~(e.HTReqArg = None \/ e.HTReason # "OK")
  <2>1. /\ Passes(x, g) /\ g.status_code = StatusOf(u.HTReason)
        /\ g.HTReason = u.HTReason /\ g.HTProt = u.HTProt
    BY <1>1, <1>4, <1>6, AnsweredIs
  <2>2. Kept(e, g)
    BY <1>2, <1>4, <2>1 DEF Passes, Kept
  <2>3. /\ g.status_code = 200 => g.HTReason \in {"OK", "OK_GATEWAY"}
        /\ g.status_code \in {301, 302} => g.HTReason \in {"OK_MOVED", "OK_REDIRECT"}
    BY <2>1 DEF StatusOf
  <2> QED
    BY <1>2, <1>4, <2>1, <2>2, <2>3 DEF g
<1> QED
  BY <1>5, <1>6

\* What an earlier URL leaves does not open what a set-up protects.
THEOREM AuthorisedAlike ==
    ASSUME NEW rules, Len(rules) \in Nat, \A i \in 1 .. Len(rules) : RuleRight(rules[i]),
           None \notin Path, \A p \in Path : ScriptName[p] # None,
           NEW f, NEW a, Alike(f, a), IdsRight(f),
           NEW remote, NEW files, NEW method, method \notin {"PUT", "DELETE"}, NEW cred,
           LET F == HTAA_checkAuthorization(remote, rules, files, f, method, cred) IN
           F.HTProt # None /\ Acl[Checked(F)] = None,
           HTAA_checkAuthorization(remote, rules, files, a, method, cred).status_code = 200
    PROVE  HTAA_checkAuthorization(remote, rules, files, f, method, cred).status_code = 200
<1> DEFINE t == HTTranslateReq(rules, f)
           b == HTTranslateReq(rules, a)
           u == Authorise(remote, files, t, method, cred)
           v == Authorise(remote, files, b, method, cred)
           F == HTAA_checkAuthorization(remote, rules, files, f, method, cred)
           A == HTAA_checkAuthorization(remote, rules, files, a, method, cred)
<1>1. /\ F = IF f.HTReqArg = None \/ f.HTReason # "OK" THEN Answered(f, 403)
             ELSE Answered(u, StatusOf(u.HTReason))
      /\ A = IF a.HTReqArg = None \/ a.HTReason # "OK" THEN Answered(a, 403)
             ELSE Answered(v, StatusOf(v.HTReason))
  BY DEF HTAA_checkAuthorization, Concluded
<1>2. ASSUME NEW e, DOMAIN e = Fields, NEW code PROVE Answered(e, code).status_code = code
  BY <1>2 DEF Answered, Fields
<1>3. DOMAIN f = Fields /\ DOMAIN a = Fields /\ f.HTReqArg = a.HTReqArg /\ f.HTReason = a.HTReason
  BY DEF Alike
<1>4. Alike(t, b)
  BY TranslatedAlike
<1>5. Kept(f, t)
  BY <1>3, TranslatedSound
<1>6. DOMAIN t = Fields /\ IdsRight(t)
  BY <1>5 DEF Kept
<1> HIDE DEF t, b
<1> DEFINE x == Named(remote, files, t, method)
<1>7. Passes(x, u) /\ (Acl[Checked(x)] = None => u.HTProt = t.HTProt)
  BY <1>6, AuthorisePasses
<1> HIDE DEF u, v, F, A, x
<1>8. ~(a.HTReqArg = None \/ a.HTReason # "OK")
  <2>1. A.status_code = 200
    BY DEF A
  <2> QED
    BY <1>1, <1>2, <1>3, <2>1
<1>9. F = Answered(u, StatusOf(u.HTReason)) /\ A = Answered(v, StatusOf(v.HTReason))
  BY <1>1, <1>3, <1>8
<1>10. Passes(x, F) /\ F.HTProt = u.HTProt /\ F.status_code = StatusOf(u.HTReason)
  BY <1>7, <1>9, AnsweredIs
<1>11. F.HTProt # None /\ Acl[Checked(F)] = None
  BY DEF F
<1>12. Checked(F) = Checked(x)
  BY <1>10 DEF Passes, Checked
<1>13. t.HTProt # None /\ Acl[Checked(x)] = None
  BY <1>7, <1>10, <1>11, <1>12
<1>14. v.HTReason = u.HTReason
  BY <1>4, <1>13, AuthoriseAlike DEF u, v, x
<1>15. DOMAIN v = Fields
  BY <1>4, AuthoriseFields DEF Alike, v
<1>16. A.status_code = StatusOf(v.HTReason)
  BY <1>2, <1>9, <1>15
<1>17. A.status_code = 200
  BY DEF A
<1> QED
  BY <1>10, <1>14, <1>16, <1>17 DEF F

\* Two environments of the same protection and the same verdict: they differ in the name
\* of the file at most.
SameVerdict(x, t) ==
    /\ DOMAIN x = Fields /\ DOMAIN t = Fields
    /\ t.HTReason = x.HTReason /\ t.HTReasonLine = x.HTReasonLine
    /\ t.HTUser = x.HTUser /\ t.HTProt = x.HTProt /\ t.HTDefProt = x.HTDefProt /\ t.HTIds = x.HTIds

\* Names that have the same access control list get the same verdict.
LEMMA CheckSame ==
    ASSUME NEW x, NEW t, SameVerdict(x, t), x.HTReqScript = None, t.HTReqScript = None,
           x.HTReqTranslated # None, t.HTReqTranslated # None,
           Acl[x.HTReqTranslated] = Acl[t.HTReqTranslated],
           NEW method, NEW cred, NEW no_acls \in BOOLEAN
    PROVE  SameVerdict(check_authorization(x, method, cred, no_acls),
                       check_authorization(t, method, cred, no_acls))
<1>1. ASSUME NEW f, NEW g, SameVerdict(f, g), NEW why
      PROVE  SameVerdict(Because(f, why), Because(g, why))
  BY <1>1 DEF SameVerdict, Because, Fields
<1>2. ASSUME NEW f, NEW g, SameVerdict(f, g)
      PROVE  /\ SameVerdict(Authenticate(f, cred), Authenticate(g, cred))
             /\ SameVerdict(Fresher(f), Fresher(g))
             /\ SameVerdict(UseDefault(f), UseDefault(g))
             /\ f.HTProt = g.HTProt /\ f.HTUser = g.HTUser
  BY <1>2 DEF SameVerdict, Authenticate, Fresher, UseDefault, Fields
<1>3. ASSUME NEW f, NEW g, SameVerdict(f, g), NEW need
      PROVE  SameVerdict(NeedsSetup(f, need), NeedsSetup(g, need))
  BY <1>2, <1>3 DEF NeedsSetup
<1>4. ASSUME NEW f, NEW g, SameVerdict(f, g), NEW mask
      PROVE  SameVerdict(Judged(f, mask, no_acls), Judged(g, mask, no_acls))
  BY <1>1, <1>2, <1>4 DEF Judged, Allowed
<1>5. ASSUME NEW f, NEW g, SameVerdict(f, g)
      PROVE  SameVerdict(ByMask(f, method, cred, no_acls), ByMask(g, method, cred, no_acls))
  <2>1. CASE f.HTProt = None
    BY <1>1, <1>2, <1>5, <2>1 DEF ByMask, Allowed
  <2>2. CASE f.HTProt # None
    BY <1>1, <1>2, <1>4, <1>5, <2>2 DEF ByMask
  <2> QED
    BY <2>1, <2>2
<1>6. ASSUME NEW f, NEW g, SameVerdict(f, g), NEW mask, NEW entries
      PROVE  SameVerdict(ByEntries(f, mask, entries), ByEntries(g, mask, entries))
  BY <1>1, <1>2, <1>6 DEF ByEntries
<1>7. ASSUME NEW f, NEW g, SameVerdict(f, g), NEW entries
      PROVE  SameVerdict(ByAcl(f, method, cred, entries), ByAcl(g, method, cred, entries))
  <2>1. CASE f.HTProt = None
    BY <1>1, <1>2, <1>7, <2>1 DEF ByAcl
  <2>2. CASE f.HTProt # None
    BY <1>2, <1>6, <1>7, <2>2 DEF ByAcl
  <2> QED
    BY <2>1, <2>2
<1> DEFINE f(e) == NeedsSetup(Fresher(e), method \in {"PUT", "DELETE"})
           acl == Acl[x.HTReqTranslated]
<1>8. SameVerdict(f(x), f(t)) /\ SameVerdict(NeedsSetup(f(x), TRUE), NeedsSetup(f(t), TRUE))
  BY <1>2, <1>3
<1>9. /\ check_authorization(x, method, cred, no_acls) =
           IF no_acls \/ acl = None THEN ByMask(f(x), method, cred, no_acls)
           ELSE ByAcl(NeedsSetup(f(x), TRUE), method, cred, acl[method])
      /\ check_authorization(t, method, cred, no_acls) =
           IF no_acls \/ acl = None THEN ByMask(f(t), method, cred, no_acls)
           ELSE ByAcl(NeedsSetup(f(t), TRUE), method, cred, acl[method])
  BY CheckIs DEF Checked
<1> HIDE DEF f, acl
<1> QED
  BY <1>5, <1>7, <1>8, <1>9

\* A file that is refused under the name it was found by is refused in the same words, and
\* with the same status, when there is none, if the access control list is the same for
\* both names.
THEOREM RefusedUnseen ==
    ASSUME NEW rules, NEW e, NEW remote, NEW method, NEW cred, NEW p, NEW q, NEW name,
           name # None, name \notin Welcome,
           LET file == HTTranslateReq(rules, e).HTReqTranslated IN
           /\ file \notin remote
           /\ p[file] = name /\ q[file] = None
           /\ Acl[name] = Acl[file],
           Len(rules) \in Nat, \A i \in 1 .. Len(rules) : RuleRight(rules[i]),
           None \notin Path, \A x \in Path : ScriptName[x] # None,
           DOMAIN e = Fields, IdsRight(e)
    PROVE  LET P == HTAA_checkAuthorization(remote, rules, p, e, method, cred)
               Q == HTAA_checkAuthorization(remote, rules, q, e, method, cred)
           IN  P.status_code # 200 =>
                   Q.status_code = P.status_code /\ Q.HTReasonLine = P.HTReasonLine
<1> DEFINE t == HTTranslateReq(rules, e)
           file == t.HTReqTranslated
           x == Physical(t, name, method)
           c == check_authorization(x, method, cred, FALSE)
           d == check_authorization(t, method, cred, FALSE)
           P == HTAA_checkAuthorization(remote, rules, p, e, method, cred)
           Q == HTAA_checkAuthorization(remote, rules, q, e, method, cred)
<1>1. Kept(e, t)
  BY TranslatedSound
<1>2. DOMAIN t = Fields
  BY <1>1 DEF Kept
<1>3. CASE e.HTReqArg = None \/ e.HTReason # "OK"
  BY <1>3 DEF HTAA_checkAuthorization
<1>4. CASE ~(e.HTReqArg = None \/ e.HTReason # "OK") /\ (~Translated(t) \/ t.HTReqScript # None)
  BY <1>4 DEF HTAA_checkAuthorization, Authorise
<1>5. CASE ~(e.HTReqArg = None \/ e.HTReason # "OK") /\ Translated(t) /\ t.HTReqScript = None
  <2>1. /\ P = Concluded(LocalFile(t, p[file], method, cred))
        /\ Q = Concluded(LocalFile(t, q[file], method, cred))
    BY <1>5 DEF HTAA_checkAuthorization, Authorise
  <2>2. LocalFile(t, p[file], method, cred) = c
    BY DEF LocalFile, AuthoriseFound, Reported
  <2>3. LocalFile(t, q[file], method, cred) =
          IF Looks(method) /\ d.HTReason = "OK" THEN Because(d, "MULTI_FAILED") ELSE d
    <3>1. Physical(t, None, method) = t /\ ~(None \in Welcome)
      BY PathAssumption DEF Physical
    <3> QED
      BY <3>1 DEF LocalFile, AuthoriseFound, Reported
  <2>4. SameVerdict(c, d)
    <3>1. SameVerdict(x, t) /\ x.HTReqScript = t.HTReqScript
      BY <1>2 DEF SameVerdict, Physical, Fields
    <3>2. x.HTReqTranslated \in {name, file} /\ file # None
      BY <1>2, <1>5 DEF Physical, Translated, Fields
    <3> HIDE DEF x, t
    <3> QED
      BY <1>5, <3>1, <3>2, CheckSame DEF t
  <2>5. /\ DOMAIN c = Fields /\ DOMAIN d = Fields /\ c.HTReason = d.HTReason
        /\ c.HTReasonLine = d.HTReasonLine
    BY <2>4 DEF SameVerdict
  <2> HIDE DEF c, d, P, Q, t, x
  <2>6. ASSUME NEW u, DOMAIN u = Fields
        PROVE  /\ Concluded(u).status_code = StatusOf(u.HTReason)
               /\ Concluded(u).HTReasonLine = IF u.HTReasonLine = None THEN u.HTReason ELSE u.HTReasonLine
    BY <2>6 DEF Concluded, Answered, Fields
  <2>7. P = Concluded(c)
    BY <2>1, <2>2
  <2>8. CASE c.HTReason = "OK"
    <3>1. P.status_code = 200
      BY <2>5, <2>6, <2>7, <2>8 DEF StatusOf
    <3> QED
      BY <3>1 DEF P
  <2>9. CASE c.HTReason # "OK"
    <3>1. Q = Concluded(d)
      BY <2>1, <2>3, <2>5, <2>9
    <3> QED
      BY <2>5, <2>6, <2>7, <3>1 DEF P, Q
  <2> QED
    BY <2>8, <2>9
<1> QED
  BY <1>3, <1>4, <1>5

\* A local file is admitted as its access control list has it: a verdict by a list is that
\* of one of its entries on the user.
LEMMA ListChecked ==
    ASSUME NEW x, DOMAIN x = Fields, IdsRight(x), NEW method, NEW cred, NEW no_acls \in BOOLEAN,
           x.HTReqTranslated # None, x.HTReqScript = None,
           check_authorization(x, method, cred, no_acls).HTReason = "OK"
    PROVE  ~no_acls /\ ListAdmits(check_authorization(x, method, cred, no_acls), method)
<1> DEFINE f == NeedsSetup(Fresher(x), method \in {"PUT", "DELETE"})
           h == NeedsSetup(f, TRUE)
           acl == Acl[x.HTReqTranslated]
           g == check_authorization(x, method, cred, no_acls)
<1>1. g = IF no_acls \/ acl = None THEN ByMask(f, method, cred, no_acls)
          ELSE ByAcl(h, method, cred, acl[method])
  BY CheckIs DEF Checked
<1>2. Passes(x, g)
  BY CheckPasses
<1>3. Passes(x, f) /\ Passes(x, h)
  <2>1. Passes(x, Fresher(x))
    BY DEF Passes, Kept, IdsRight, Fresher, Fields
  <2>2. (method \in {"PUT", "DELETE"}) \in BOOLEAN
    OBVIOUS
  <2>3. Passes(x, f)
    BY <2>1, <2>2, NeedsSetupPasses
  <2> HIDE DEF f
  <2> QED
    BY <2>3, NeedsSetupPasses
<1> HIDE DEF f, h
<1>4. DOMAIN f = Fields /\ DOMAIN h = Fields
  BY <1>3 DEF Passes, Kept
<1>5. ASSUME NEW e, DOMAIN e = Fields, NEW why
      PROVE  Because(e, why).HTReason = why /\ Because(e, why).HTUser = e.HTUser
  BY <1>5 DEF Because, Fields
<1>6. CASE no_acls
  <2>1. g = ByMask(f, method, cred, no_acls)
    BY <1>1, <1>6
  <2>2. DOMAIN Authenticate(f, cred) = Fields
    BY <1>4 DEF Authenticate
  <2>3. ByMask(f, method, cred, no_acls).HTReason # "OK"
    BY <1>4, <1>5, <1>6, <2>2 DEF ByMask, Judged, Allowed
  <2> QED
    BY <2>1, <2>3
<1>7. CASE ~no_acls /\ acl # None
  <2> DEFINE a == Authenticate(h, cred)
             entries == acl[method]
  <2>1. g = ByAcl(h, method, cred, entries)
    BY <1>1, <1>7
  <2>2. DOMAIN a = Fields
    BY <1>4 DEF Authenticate
  <2>3. h.HTProt # None
    BY <1>4, <1>5, <2>1 DEF ByAcl
  <2>4. g = ByEntries(a, Mask(h.HTProt, method), entries)
    BY <2>1, <2>3 DEF ByAcl
  <2> HIDE DEF a, entries, g
  <2>5. g.HTReason = "OK"
    BY DEF g
  <2>6. (\E i \in DOMAIN entries : entries[i][a.HTUser] = "OK") /\ g.HTUser = a.HTUser
    BY <1>5, <2>2, <2>4, <2>5 DEF ByEntries
  <2>7. g.HTReqTranslated = x.HTReqTranslated
    BY <1>2 DEF Passes, g
  <2>8. ListAdmits(g, method)
    BY <2>6, <2>7 DEF ListAdmits, entries
  <2> QED
    BY <1>7, <2>8 DEF g
<1>8. CASE ~no_acls /\ acl = None
  BY <1>2, <1>8 DEF Passes, ListAdmits
<1> QED
  BY <1>6, <1>7, <1>8

\* So is whatever HTAA_checkAuthorization lets pass: the name that counts is that of the
\* file, as HTMulti has found it.
THEOREM ListsAdmit ==
    ASSUME NEW rules, Len(rules) \in Nat, \A i \in 1 .. Len(rules) : RuleRight(rules[i]),
           None \notin Path, \A p \in Path : ScriptName[p] # None,
           NEW e, DOMAIN e = Fields, IdsRight(e),
           NEW remote, NEW files, NEW method, NEW cred
    PROVE  LET g == HTAA_checkAuthorization(remote, rules, files, e, method, cred) IN
           g.status_code # 403 => ListAdmits(g, method)
<1> DEFINE t == HTTranslateReq(rules, e)
           x == Named(remote, files, t, method)
           found == files[t.HTReqTranslated]
           u == Authorise(remote, files, t, method, cred)
           c == check_authorization(x, method, cred, FALSE)
           d == check_authorization(x, method, cred, TRUE)
           g == HTAA_checkAuthorization(remote, rules, files, e, method, cred)
<1>1. g = IF e.HTReqArg = None \/ e.HTReason # "OK" THEN Answered(e, 403)
          ELSE Answered(u, StatusOf(u.HTReason))
  BY DEF HTAA_checkAuthorization, Concluded
<1>2. Kept(e, t)
  BY TranslatedSound
<1>3. DOMAIN t = Fields /\ IdsRight(t)
  BY <1>2 DEF Kept
<1> HIDE DEF t
<1>4. DOMAIN u = Fields
  BY <1>3, AuthoriseFields
<1>5. /\ DOMAIN x = Fields /\ IdsRight(x)
      /\ x.HTReqScript = t.HTReqScript /\ x.HTReason = t.HTReason
      /\ t.HTReqTranslated # None => x.HTReqTranslated # None
  BY <1>3, NamedKeeps, NamedKept
<1>6. u = IF ~Translated(t) THEN x
          ELSE IF t.HTReqScript # None THEN c
          ELSE IF t.HTReqTranslated \in remote THEN ForProxy(d)
          ELSE IF ToWelcome(found, method) THEN Moved(x)
          ELSE Reported(c, found, method)
  BY AuthoriseIs
<1>7. ~Translated(t) => x = t
  BY DEF Named
<1> HIDE DEF x, u, g
<1>8. Passes(x, c) /\ Passes(x, d)
  BY <1>5, CheckPasses
<1>9. DOMAIN c = Fields /\ DOMAIN d = Fields
  BY <1>8 DEF Passes, Kept
<1>10. x.HTReqTranslated # None /\ x.HTReqScript = None =>
         (c.HTReason = "OK" => ListAdmits(c, method)) /\ d.HTReason # "OK"
  BY <1>5, ListChecked
<1> HIDE DEF c, d
<1>11. ListAdmits(u, method)
  <2>1. SUFFICES ASSUME u.HTReason = "OK", u.HTReqScript = None, u.HTReqTranslated # None
                 PROVE  ListAdmits(u, method)
    BY DEF ListAdmits
  <2>2. Translated(t)
    BY <1>6, <1>7, <2>1 DEF Translated
  <2>3. t.HTReqScript = None
    BY <1>5, <1>6, <1>8, <2>1, <2>2 DEF Passes
  <2>4. x.HTReqTranslated # None /\ x.HTReqScript = None
    BY <1>5, <2>2, <2>3 DEF Translated
  <2>5. t.HTReqTranslated \notin remote
    BY <1>6, <1>9, <1>10, <2>1, <2>2, <2>3, <2>4 DEF ForProxy, Because, Fields
  <2>6. ~ToWelcome(found, method)
    BY <1>5, <1>6, <2>1, <2>2, <2>3, <2>5 DEF Moved, Fields
  <2>7. u = Reported(c, found, method)
    BY <1>6, <2>2, <2>3, <2>5, <2>6
  <2>8. u = c
    BY <1>9, <2>1, <2>7 DEF Reported, Because, Fields
  <2> QED
    BY <1>10, <2>1, <2>4, <2>8
<1>12. CASE e.HTReqArg = None \/ e.HTReason # "OK"
  <2>1. g.status_code = 403
    BY <1>1, <1>12 DEF Answered, Fields
  <2> QED
    BY <2>1 DEF g
<1>13. CASE ~(e.HTReqArg = None \/ e.HTReason # "OK")
  <2>1. g = Answered(u, StatusOf(u.HTReason))
    BY <1>1, <1>13
  <2>2. /\ g.HTReason = u.HTReason /\ g.HTReqScript = u.HTReqScript
        /\ g.HTReqTranslated = u.HTReqTranslated /\ g.HTUser = u.HTUser
    BY <1>4, <2>1 DEF Answered, Fields
  <2>3. ListAdmits(g, method)
    BY <1>11, <2>2 DEF ListAdmits
  <2> QED
    BY <2>3 DEF g
<1> QED
  BY <1>12, <1>13


-----------------------------------------------------------------------------
(* The inductive invariant                                                 *)

\* Where a script may be running.
ScriptAt == {"body", "output", "wait", "exit"}

\* The script process is there when its output is read, and is not left behind.
ScriptInv ==
    /\ DOMAIN script = DOMAIN NoScript
    /\ script.open \in BOOLEAN
    /\ pc \in {"body", "output", "wait"} => script.state \in {"running", "exited"}
    /\ script.state = "running" => pc \in ScriptAt
    /\ pc \in {"call", "body", "output", "wait"} => env.HTReqScript # None

\* What the alarm clock is set for; set_signals may lose it where its end is near.
TimerInv ==
    /\ pc = "parse" => timer = "input"
    /\ pc \in {"load", "redirect"} => timer = "output"
    /\ pc = "relay" => timer = "output" \/ (timer = "lost" /\ ignore)
    /\ pc \in {"body", "output", "wait"} =>
          \/ timer = "script"
          \/ timer = "lost" /\ (script.state = "exited" \/ ~script.open)

\* The errors of HTHandle that leave `status' without a value.
Unassigned == {"not in cache", "not configured", "not implemented"}

\* s is a sequence, of whatever.
IsASequence(s) == \E S : s \in Seq(S)

\* What has been sent, and that something is sent before the end, but for scripts.
SentInv ==
    /\ IsASequence(sent)
    /\ HeadHasNoBody
    /\ pc = "error" => err.next \in {"finish", "cleanup"}
    /\ pc \in {"finish", "cleanup"} => sent # <<>> \/ client = "gone" \/ env.HTReqScript # None

\* The first answer left `status' unassigned: a second one may follow.
Exempt == sent # <<>> /\ sent[1].why \in Unassigned

\* Where the reply may have been begun, and what the end of the command is told.
Orderly ==
    /\ Len(sent) <= 1
    /\ sent # <<>> =>
         \/ pc \in {"cleanup", "exit"}
         \/ pc \in {"finish", "wait"} /\ status = "HT_LOADED"
         \/ pc = "body" /\ IsNph
         \/ pc = "output" /\ ~req.http1 /\ script.headers
    /\ pc = "output" => ~IsNph
    /\ pc = "wait" /\ IsNph => status = "HT_LOADED"
    /\ pc \in {"body", "wait"} /\ IsNph /\ sent # <<>> => script.headers
    /\ pc = "error" => err.next = "cleanup" \/ status = "HT_LOADED" \/ err.why \in Unassigned

\* One answer.
OnceInv == Exempt \/ Orderly

\* The environment is one.
EnvInv == DOMAIN env = Fields /\ IdsRight(env)

\* Where the request is served.
ServingAt == {"relay", "load", "call", "body", "output", "wait"}

\* What HTAA_checkAuthorization says of a URL in a fresh environment.
FreshFor(arg, method, cred) ==
    HTAA_checkAuthorization(Remote, Rule, Files, compute_server_env(Env0, arg), method, cred)

\* Opens, of the fresh environment: h is the number of the hop.
OpenAt(h, arg, method, cred) ==
    LET fresh == FreshFor(arg, method, cred) IN
    h = 0 \/ (fresh.HTProt # None /\ Acl[Checked(fresh)] = None) => fresh.status_code = 200

\* The fields of a request.
ReqFields == {"method", "arg", "cred", "content_length", "http1", "ims"}

\* The first hop is the client's request, and a redirection changes nothing.
HopInv ==
    /\ hops \in Nat
    /\ DOMAIN req = ReqFields
    /\ pc \in {"parse", "authorise", "setuid"} /\ hops = 0 => uid = "root"
    /\ pc = "parse" => env = Env0 /\ hops = 0
    /\ hops = 0 => req \in Requests
    /\ pc \in {"authorise", "setuid", "serve"} \cup ServingAt /\ hops # 0 => req.method \notin {"PUT", "DELETE"}

\* The environment that is authorised is that of its URL, and what was left.
UrlInv ==
    pc = "authorise" =>
        /\ hops = 0 => env = compute_server_env(Env0, req.arg)
        /\ env.HTReason = "OK" => Alike(compute_server_env(Env0, env.HTReqArg), env)

\* What is served has been admitted, by the set-up of its own URL.
AdmittedInv ==
    \/ pc \in {"setuid", "serve"} /\ ~Redirected
    \/ pc \in ServingAt
    => /\ OpenAt(hops, env.HTReqArg, req.method, req.cred)
       /\ req.method \in {"PUT", "DELETE"} => env.HTProt # None

\* Whose identity the child has.
UidInv ==
    pc \in {"serve"} \cup ServingAt =>
        /\ uid # "root"
        /\ hops = 0 /\ env.HTProt # None /\ env.HTProt.ids # None => uid \in {env.HTProt.ids, env.HTUser}

\* What is about to be served the list of its directory admits the user to.
ListInv == pc \in {"setuid", "serve"} => ListAdmits(env, req.method)

\* The inductive invariant of a request.
RInv == ScriptInv /\ TimerInv /\ SentInv /\ OnceInv /\ EnvInv /\ HopInv /\ UrlInv /\ AdmittedInv /\ ListInv /\ UidInv

-----------------------------------------------------------------------------
(* The URL, its authorisation and the identity that it is served with      *)

\* The environment is still that of the same URL, and its protection the same.
SameUrl(e, f) ==
    /\ DOMAIN f = DOMAIN e /\ f.HTReqArg = e.HTReqArg /\ f.HTReason = e.HTReason
    /\ f.HTUser = e.HTUser /\ f.HTProt = e.HTProt /\ f.HTDefProt = e.HTDefProt /\ f.HTIds = e.HTIds

\* A step that leaves the URL, the request and the identity alone, and does not begin to
\* serve what was not admitted.
Quiet ==
    /\ SameUrl(env, env')
    /\ UNCHANGED <<req, uid, hops>>
    /\ pc' \in {"parse", "authorise", "setuid", "serve"} => pc' = pc /\ env' = env
    /\ pc' \in ServingAt => pc \in ServingAt \/ (pc = "serve" /\ ~Redirected)

\* HTReplyHeaders sets the status only.
LEMMA HeadersSameUrl ==
    ASSUME NEW e, DOMAIN e = Fields
    PROVE  /\ SameUrl(e, HTReplyHeaders(e))
           /\ HTReplyHeaders(e).HTReqScript = e.HTReqScript
BY DEF HTReplyHeaders, SameUrl, Fields

\* So does an error.
LEMMA StatusSameUrl ==
    ASSUME NEW e, DOMAIN e = Fields, NEW code, NEW why
    PROVE  LET f == [e EXCEPT !.status_code = code, !.HTReasonLine = why] IN
           SameUrl(e, f) /\ f.HTReqScript = e.HTReqScript
BY DEF SameUrl, Fields

\* Both, one after the other.
LEMMA SameUrlAgain ==
    ASSUME NEW e, NEW f, NEW g, SameUrl(e, f), SameUrl(f, g)
    PROVE  SameUrl(e, g)
BY DEF SameUrl

\* All steps are quiet but four.
LEMMA QuietSteps ==
    ASSUME EnvInv, SentInv, [Next]_vars, ~ParseRequest, ~CheckAuthorization, ~SetUid, ~Finish
    PROVE  Quiet
<1>1. SameUrl(env, env)
  BY DEF SameUrl
<1>2. DOMAIN env = Fields
  BY DEF EnvInv
<1>3. ASSUME UNCHANGED <<req, uid, hops, env>>, pc' = pc \/ pc' \notin {"parse", "authorise", "setuid", "serve"} \cup ServingAt
      PROVE  Quiet
  BY <1>1, <1>3 DEF Quiet, ServingAt
<1>4. ASSUME UNCHANGED <<req, uid, hops>>, SameUrl(env, env'),
             pc' \notin {"parse", "authorise", "setuid", "serve"},
             pc \in ServingAt \/ (pc = "serve" /\ ~Redirected) \/ pc' \notin ServingAt
      PROVE  Quiet
  BY <1>4 DEF Quiet
<1>5. CASE ParseFails \/ ErrorToNobody \/ RelayToNobody \/ ServeRedirection \/ GetBlock \/ GiveBlock
           \/ BlockRefused \/ ReadDocument \/ OutputToNobody \/ Wait \/ CleanUp \/ Relay
  BY <1>3, <1>5 DEF ParseFails, ErrorToNobody, RelayToNobody, ServeRedirection, GetBlock, GiveBlock,
       BlockRefused, ReadDocument, OutputToNobody, Wait, CleanUp, Relay, Die, ServingAt
<1>6. CASE ScriptReads \/ ScriptCloses \/ ScriptWrites \/ ScriptExits \/ ClientChanges \/ TimedOut
           \/ UNCHANGED vars
  BY <1>3, <1>6 DEF ScriptReads, ScriptCloses, ScriptWrites, ScriptExits, ClientChanges, TimedOut, vars,
       ServingAt
<1>7. CASE HTLoadError
  <2>1. pc' \in {"finish", "cleanup", "exit"} /\ UNCHANGED <<req, uid, hops>>
    BY <1>7 DEF HTLoadError, SentInv
  <2>2. SameUrl(env, env')
    <3> DEFINE e == IF err.num \in ErrorUrls THEN env
                    ELSE [env EXCEPT !.status_code = err.num, !.HTReasonLine = err.why]
    <3>1. SameUrl(env, e)
      BY <1>1, <1>2, StatusSameUrl
    <3>2. env' = HTReplyHeaders(e)
      BY <1>7 DEF HTLoadError
    <3> HIDE DEF e
    <3> QED
      BY <1>2, <3>1, <3>2, HeadersSameUrl, SameUrlAgain DEF SameUrl
  <2> QED
    BY <1>4, <2>1, <2>2 DEF ServingAt
<1>8. CASE HTLoadRedirection
  <2>1. env' = HTReplyHeaders(env) /\ pc' = "finish" /\ UNCHANGED <<req, uid, hops>>
    BY <1>8 DEF HTLoadRedirection
  <2> QED
    BY <1>2, <1>4, <2>1, HeadersSameUrl DEF ServingAt
<1>9. CASE Load
  <2>1. PICK modified \in BOOLEAN :
          env' = HTReplyHeaders(IF modified THEN env
                                ELSE [env EXCEPT !.status_code = 304, !.HTReasonLine = "Not modified"])
    BY <1>9 DEF Load
  <2> DEFINE e == IF modified THEN env
                  ELSE [env EXCEPT !.status_code = 304, !.HTReasonLine = "Not modified"]
  <2>2. SameUrl(env, e)
    BY <1>1, <1>2, StatusSameUrl
  <2>3. env' = HTReplyHeaders(e)
    BY <2>1
  <2> HIDE DEF e
  <2>4. SameUrl(env, env')
    BY <1>2, <2>2, <2>3, HeadersSameUrl, SameUrlAgain DEF SameUrl
  <2>5. pc' = "finish" /\ UNCHANGED <<req, uid, hops>>
    BY <1>9 DEF Load
  <2> QED
    BY <1>4, <2>4, <2>5 DEF ServingAt
<1>10. CASE ServeGateway \/ ServeScript \/ ServeDocument
  BY <1>1, <1>4, <1>10 DEF ServeGateway, ServeScript, ServeDocument, Gateway, Redirected, Local, ServingAt, Error
<1>11. CASE ServeSearch \/ ServeByMethod
  <2>1. SameUrl(env, env')
    BY <1>1, <1>2, <1>11 DEF ServeSearch, ServeByMethod, SameUrl, Fields
  <2>2. UNCHANGED <<req, uid, hops>> /\ pc' \in {"call", "error"} /\ pc = "serve" /\ ~Redirected
    BY <1>11 DEF ServeSearch, ServeByMethod, Error, Local
  <2> QED
    BY <1>4, <2>1, <2>2 DEF ServingAt
<1>12. CASE CallFails
  BY <1>3, <1>12 DEF CallFails, Error, ServingAt
<1>13. CASE Fork \/ BodyGiven
  <2>0. env' = env \/ env' = [env EXCEPT !.status_code = 0]
    BY <1>13 DEF Fork, BodyGiven, NphStatus
  <2>1. SameUrl(env, env')
    BY <1>1, <1>2, <2>0 DEF SameUrl, Fields
  <2>2. UNCHANGED <<req, uid, hops>> /\ pc' \in {"body", "wait", "output"} /\ pc \in {"call", "body"}
    BY <1>13 DEF Fork, BodyGiven, AfterBody
  <2> QED
    BY <1>4, <2>1, <2>2 DEF ServingAt
<1>14. CASE ReadLocal
  <2>1. SameUrl(env, env')
    BY <1>1, <1>2, <1>14 DEF ReadLocal, SameUrl, Fields
  <2> QED
    BY <1>4, <1>14, <2>1 DEF ReadLocal, ServingAt
<1>15. CASE ReadElsewhere
  <2> DEFINE e == [env EXCEPT !.status_code = 302, !.HTReasonLine = "Found"]
  <2>1. SameUrl(env, e)
    BY <1>1, <1>2, StatusSameUrl
  <2>2. env' = HTReplyHeaders(e)
    BY <1>15 DEF ReadElsewhere
  <2> HIDE DEF e
  <2>3. SameUrl(env, env')
    BY <1>2, <2>1, <2>2, HeadersSameUrl, SameUrlAgain DEF SameUrl
  <2> QED
    BY <1>4, <1>15, <2>3 DEF ReadElsewhere, ServingAt
<1>16. CASE EndOfOutput
  <2>1. SameUrl(env, env')
    BY <1>1, <1>2, <1>16, HeadersSameUrl DEF EndOfOutput
  <2> QED
    BY <1>4, <1>16, <2>1 DEF EndOfOutput, ServingAt
<1> QED
  BY <1>5, <1>6, <1>7, <1>8, <1>9, <1>10, <1>11, <1>12, <1>13, <1>14, <1>15, <1>16 DEF Next, Work, Script

-----------------------------------------------------------------------------

\* With the URL the same, the identities stay right.
LEMMA EnvIsKept ==
    ASSUME NEW e, NEW f, DOMAIN e = Fields, IdsRight(e), SameUrl(e, f)
    PROVE  DOMAIN f = Fields /\ IdsRight(f)
BY DEF SameUrl, IdsRight

\* compute_server_env makes the environment of a URL.
LEMMA ComputedEnv ==
    ASSUME NEW e, DOMAIN e = Fields, IdsRight(e), NEW arg
    PROVE  LET f == compute_server_env(e, arg) IN
           /\ DOMAIN f = Fields /\ IdsRight(f)
           /\ f.HTReqArg = arg
           /\ arg # None => f.HTReqArgPath = ArgPath[arg]
BY DEF compute_server_env, Fields, IdsRight

\* So is the first environment.
LEMMA Env0Right == DOMAIN Env0 = Fields /\ IdsRight(Env0)
BY DEF Env0, Fields, IdsRight

\* The environment of a URL is like a fresh one, but for what is left.
LEMMA ComputedAlike ==
    ASSUME NEW e, DOMAIN e = Fields, NEW arg, compute_server_env(e, arg).HTReason = "OK"
    PROVE  Alike(compute_server_env(Env0, arg), compute_server_env(e, arg))
<1> DEFINE f == compute_server_env(Env0, arg)
           a == compute_server_env(e, arg)
<1>1. /\ DOMAIN f = Fields /\ DOMAIN a = Fields
      /\ a.HTReqArg = f.HTReqArg /\ a.HTReqArgPath = f.HTReqArgPath
      /\ a.HTReqTranslated = f.HTReqTranslated /\ a.HTReqScript = f.HTReqScript
      /\ a.HTScriptPathInfo = f.HTScriptPathInfo /\ a.HTScriptPathTrans = f.HTScriptPathTrans
      /\ a.HTLocation = f.HTLocation
      /\ f.HTDefProt = None /\ f.HTProt = None
  BY DEF compute_server_env, Fields, Env0
<1>2. arg \notin Dotted
  BY DEF compute_server_env, Fields
<1>3. f.HTReason = "OK"
  BY <1>2 DEF compute_server_env, Env0
<1> QED
  BY <1>1, <1>3 DEF Alike

\* The assumptions on the constants, as Access takes them.
LEMMA RulesRight ==
    /\ Len(Rule) \in Nat
    /\ \A i \in 1 .. Len(Rule) : RuleRight(Rule[i])
    /\ None \notin Path
    /\ \A p \in Path : ScriptName[p] # None
<1>1. Len(Rule) \in Nat /\ DOMAIN Rule = 1 .. Len(Rule)
  BY RuleAssumption
<1> QED
  BY <1>1, RuleAssumption, PathAssumption, IdsAssumption DEF RuleRight

\* Authorised for the rules of the configuration.
LEMMA EnvAuthorised ==
    ASSUME NEW e, DOMAIN e = Fields, IdsRight(e), NEW method, NEW cred
    PROVE  LET g == HTAA_checkAuthorization(Remote, Rule, Files, e, method, cred) IN
           /\ DOMAIN g = Fields /\ IdsRight(g) /\ g.HTReqArg = e.HTReqArg
           /\ g.status_code = 200 => g.HTReason \in {"OK", "OK_GATEWAY"}
           /\ g.status_code \in {301, 302} => g.HTReason \in {"OK_MOVED", "OK_REDIRECT"}
           /\ (/\ g.status_code = 200 /\ method \in {"PUT", "DELETE"} /\ e.HTReqArgPath \in Path)
              => g.HTProt # None
BY Authorised, RulesRight DEF Kept

\* The environment of the start.
LEMMA EnvInvInit == Init => EnvInv
BY Env0Right DEF Init, EnvInv

\* Every step keeps the environment right.
LEMMA EnvInvStep ==
    ASSUME EnvInv, SentInv, [Next]_vars
    PROVE  EnvInv'
<1>1. DOMAIN env = Fields /\ IdsRight(env)
  BY DEF EnvInv
<1>2. CASE ParseRequest
  BY <1>1, <1>2, ComputedEnv DEF ParseRequest, EnvInv
<1>3. CASE CheckAuthorization
  BY <1>1, <1>3, EnvAuthorised DEF CheckAuthorization, Authorise_, EnvInv
<1>4. CASE SetUid
  BY <1>1, <1>4 DEF SetUid, EnvInv
<1>5. CASE Finish
  <2>1. env' = env \/ env' = compute_server_env(env, env.HTLocation)
    BY <1>5 DEF Finish
  <2> QED
    BY <1>1, <2>1, ComputedEnv DEF EnvInv
<1>6. CASE ~ParseRequest /\ ~CheckAuthorization /\ ~SetUid /\ ~Finish
  BY <1>1, <1>6, QuietSteps, EnvIsKept DEF Quiet, EnvInv
<1> QED
  BY <1>2, <1>3, <1>4, <1>5, <1>6

-----------------------------------------------------------------------------

\* The first hop.
LEMMA HopInvInit == Init => HopInv
BY RequestsAssumption DEF Init, HopInv, ReqFields, ServingAt

\* Every step keeps the hops right: a PUT or DELETE is not redirected within the server.
LEMMA HopInvStep ==
    ASSUME EnvInv, SentInv, HopInv, [Next]_vars
    PROVE  HopInv'
<1>1. CASE ParseRequest
  BY <1>1 DEF ParseRequest, HopInv, Error, ServingAt
<1>2. CASE CheckAuthorization
  BY <1>2 DEF CheckAuthorization, HopInv, Error, ServingAt
<1>3. CASE SetUid
  BY <1>3 DEF SetUid, HopInv, ServingAt
<1>4. CASE Finish
  <2> DEFINE turned == [req EXCEPT !.method = IF @ \in {"GET", "HEAD"} THEN @ ELSE "GET"]
  <2>1. DOMAIN turned = ReqFields /\ turned.method \in {"GET", "HEAD"}
    BY DEF HopInv, ReqFields
  <2>2. CASE hops' = hops /\ UNCHANGED req /\ pc' = "cleanup"
    BY <1>4, <2>2 DEF Finish, HopInv, ServingAt
  <2>3. CASE hops' = hops + 1 /\ UNCHANGED req /\ pc' = "error"
    <3>1. hops' \in Nat /\ hops' # 0
      BY <2>3 DEF HopInv
    <3> QED
      BY <2>3, <3>1 DEF HopInv, ServingAt
  <2>4. CASE hops' = hops + 1 /\ pc' = "authorise" /\ req' = turned
    <3>1. hops' \in Nat /\ hops' # 0
      BY <2>4 DEF HopInv
    <3> HIDE DEF turned
    <3> QED
      BY <2>1, <2>4, <3>1 DEF HopInv, ServingAt
  <2> QED
    BY <1>4, <2>2, <2>3, <2>4 DEF Finish, Error
<1>5. CASE ~ParseRequest /\ ~CheckAuthorization /\ ~SetUid /\ ~Finish
  BY <1>5, QuietSteps DEF Quiet, HopInv, ServingAt
<1> QED
  BY <1>1, <1>2, <1>3, <1>4, <1>5

\* Nothing is authorised yet.
LEMMA UrlInvInit == Init => UrlInv
BY DEF Init, UrlInv

\* Every step keeps the URL and its environment together.
LEMMA UrlInvStep ==
    ASSUME EnvInv, SentInv, HopInv, UrlInv, [Next]_vars
    PROVE  UrlInv'
<1>1. CASE ParseRequest
  <2>1. env' = compute_server_env(env, req.arg) /\ env = Env0 /\ UNCHANGED req
    BY <1>1 DEF ParseRequest, HopInv
  <2>2. env'.HTReqArg = req.arg
    BY <2>1, Env0Right, ComputedEnv
  <2>3. env'.HTReason = "OK" => Alike(compute_server_env(Env0, env'.HTReqArg), env')
    BY <2>1, <2>2, Env0Right, ComputedAlike
  <2> QED
    BY <2>1, <2>3 DEF UrlInv
<1>2. CASE CheckAuthorization
  BY <1>2 DEF CheckAuthorization, UrlInv, Error
<1>3. CASE SetUid
  BY <1>3 DEF SetUid, UrlInv
<1>4. CASE Finish
  <2>1. CASE pc' # "authorise"
    BY <2>1 DEF UrlInv
  <2>2. CASE pc' = "authorise"
    <3>1. env' = compute_server_env(env, env.HTLocation) /\ hops' # 0
      BY <1>4, <2>2 DEF Finish, Error, HopInv
    <3>2. env'.HTReqArg = env.HTLocation
      BY <3>1, ComputedEnv DEF EnvInv
    <3>3. env'.HTReason = "OK" => Alike(compute_server_env(Env0, env'.HTReqArg), env')
      BY <3>1, <3>2, ComputedAlike DEF EnvInv
    <3> QED
      BY <3>1, <3>3 DEF UrlInv
  <2> QED
    BY <2>1, <2>2
<1>5. CASE ~ParseRequest /\ ~CheckAuthorization /\ ~SetUid /\ ~Finish
  BY <1>5, QuietSteps DEF Quiet, UrlInv
<1> QED
  BY <1>1, <1>2, <1>3, <1>4, <1>5

\* Nothing is served yet.
LEMMA AdmittedInvInit == Init => AdmittedInv
BY DEF Init, AdmittedInv, ServingAt

\* The check of the authorisation: the first hop, and the others.
LEMMA AdmittedAtCheck ==
    ASSUME EnvInv, HopInv, UrlInv, CheckAuthorization, pc' = "setuid", ~Redirected'
    PROVE  /\ OpenAt(hops, env'.HTReqArg, req.method, req.cred)
           /\ req.method \in {"PUT", "DELETE"} => env'.HTProt # None
<1> DEFINE g == HTAA_checkAuthorization(Remote, Rule, Files, env, req.method, req.cred)
<1>1. env' = g /\ env'.status_code \in {200, 301, 302} /\ pc = "authorise"
  BY DEF CheckAuthorization, Authorise_, Error
<1>2. DOMAIN env = Fields /\ IdsRight(env)
  BY DEF EnvInv
<1>3. /\ g.HTReqArg = env.HTReqArg
      /\ g.status_code \in {301, 302} => g.HTReason \in {"OK_MOVED", "OK_REDIRECT"}
      /\ (/\ g.status_code = 200 /\ req.method \in {"PUT", "DELETE"} /\ env.HTReqArgPath \in Path)
         => g.HTProt # None
  BY <1>2, EnvAuthorised
<1> HIDE DEF g
<1>4. g.status_code = 200
  BY <1>1, <1>3 DEF Redirected
<1>5. CASE hops = 0
  <2>1. env = compute_server_env(Env0, req.arg) /\ env.HTReqArg = req.arg /\ req \in Requests
        /\ (req.arg # None => env.HTReqArgPath = ArgPath[req.arg])
    BY <1>1, <1>5, Env0Right, ComputedEnv DEF UrlInv, HopInv
  <2>2. FreshFor(req.arg, req.method, req.cred) = g
    BY <2>1 DEF FreshFor, g
  <2>3. req.arg # None
    <3>1. SUFFICES ASSUME req.arg = None PROVE FALSE
      OBVIOUS
    <3>2. g = Answered(env, 403)
      BY <2>1, <3>1 DEF HTAA_checkAuthorization, g
    <3>3. g.status_code = 403
      BY <1>2, <3>2 DEF Answered, Fields
    <3> QED
      BY <1>4, <3>3
  <2>4. env.HTReqArgPath \in Path
    BY <2>1, <2>3, PathAssumption
  <2> QED
    BY <1>1, <1>3, <1>4, <2>1, <2>2, <2>4 DEF OpenAt
<1>6. CASE hops # 0
  <2>1. req.method \notin {"PUT", "DELETE"}
    BY <1>1, <1>6 DEF HopInv
  <2> DEFINE f == compute_server_env(Env0, env.HTReqArg)
             fresh == FreshFor(env.HTReqArg, req.method, req.cred)
  <2>2. env.HTReason = "OK"
    <3>1. SUFFICES ASSUME env.HTReason # "OK" PROVE FALSE
      OBVIOUS
    <3>2. g = Answered(env, 403)
      BY <3>1 DEF HTAA_checkAuthorization, g
    <3>3. g.status_code = 403
      BY <1>2, <3>2 DEF Answered, Fields
    <3> QED
      BY <1>4, <3>3
  <2>3. Alike(f, env) /\ IdsRight(f)
    BY <1>1, <2>2, Env0Right, ComputedEnv DEF UrlInv
  <2>4. fresh = HTAA_checkAuthorization(Remote, Rule, Files, f, req.method, req.cred)
    BY DEF FreshFor
  <2>5. ASSUME fresh.HTProt # None, Acl[Checked(fresh)] = None
        PROVE  fresh.status_code = 200
    <3>1. HTAA_checkAuthorization(Remote, Rule, Files, env, req.method, req.cred).status_code = 200
      BY <1>4 DEF g
    <3> HIDE DEF f, fresh
    <3> QED
      BY <2>1, <2>3, <2>4, <2>5, <3>1, RulesRight, AuthorisedAlike
  <2> QED
    BY <1>1, <1>3, <1>6, <2>1, <2>5 DEF OpenAt
<1> QED
  BY <1>5, <1>6

\* Every step keeps what is served admitted.
LEMMA AdmittedInvStep ==
    ASSUME EnvInv, SentInv, HopInv, UrlInv, AdmittedInv, [Next]_vars
    PROVE  AdmittedInv'
<1>1. CASE ParseRequest
  BY <1>1 DEF ParseRequest, AdmittedInv, Error, ServingAt
<1>2. CASE CheckAuthorization
  <2>1. UNCHANGED <<req, hops>> /\ pc' \in {"setuid", "error"}
    BY <1>2 DEF CheckAuthorization, Error
  <2>2. CASE pc' = "setuid" /\ ~Redirected'
    BY <1>2, <2>1, <2>2, AdmittedAtCheck DEF AdmittedInv
  <2>3. CASE ~(pc' = "setuid" /\ ~Redirected')
    BY <2>1, <2>3 DEF AdmittedInv, ServingAt
  <2> QED
    BY <2>2, <2>3
<1>3. CASE SetUid
  BY <1>3 DEF SetUid, AdmittedInv, ServingAt, Redirected
<1>4. CASE Finish
  <2>1. pc' \in {"authorise", "cleanup", "error"}
    BY <1>4 DEF Finish, Error
  <2> QED
    BY <2>1 DEF AdmittedInv, ServingAt
<1>5. CASE ~ParseRequest /\ ~CheckAuthorization /\ ~SetUid /\ ~Finish
  BY <1>5, QuietSteps DEF Quiet, SameUrl, AdmittedInv, Redirected, ServingAt
<1> QED
  BY <1>1, <1>2, <1>3, <1>4, <1>5

\* Nothing is served yet.
LEMMA ListInvInit == Init => ListInv
BY DEF Init, ListInv

\* Every step keeps what is served admitted by the list.
LEMMA ListInvStep ==
    ASSUME EnvInv, SentInv, ListInv, [Next]_vars
    PROVE  ListInv'
<1>1. CASE ParseRequest
  BY <1>1 DEF ParseRequest, ListInv, Error
<1>2. CASE CheckAuthorization
  <2> DEFINE g == HTAA_checkAuthorization(Remote, Rule, Files, env, req.method, req.cred)
  <2>1. env' = g /\ UNCHANGED req /\ (pc' = "setuid" => g.status_code \in {200, 301, 302})
        /\ pc' \in {"setuid", "error"}
    BY <1>2 DEF CheckAuthorization, Authorise_, Error
  <2>2. g.status_code # 403 => ListAdmits(g, req.method)
    BY RulesRight, ListsAdmit DEF EnvInv
  <2> HIDE DEF g
  <2>3. pc' = "setuid" => ListAdmits(env', req'.method)
    BY <2>1, <2>2
  <2> QED
    BY <2>1, <2>3 DEF ListInv, ListAdmits
<1>3. CASE SetUid
  BY <1>3 DEF SetUid, ListInv, ListAdmits
<1>4. CASE Finish
  <2>1. pc' \in {"authorise", "cleanup", "error"}
    BY <1>4 DEF Finish, Error
  <2> QED
    BY <2>1 DEF ListInv
<1>5. CASE ~ParseRequest /\ ~CheckAuthorization /\ ~SetUid /\ ~Finish
  <2>1. Quiet
    BY <1>5, QuietSteps
  <2>2. pc' \in {"setuid", "serve"} => pc' = pc /\ env' = env /\ req' = req
    BY <2>1 DEF Quiet
  <2> QED
    BY <2>2 DEF ListInv, ListAdmits
<1> QED
  BY <1>1, <1>2, <1>3, <1>4, <1>5

\* Nothing is served yet.
LEMMA UidInvInit == Init => UidInv
BY DEF Init, UidInv, ServingAt

\* Every step keeps the identity right.
LEMMA UidInvStep ==
    ASSUME EnvInv, SentInv, HopInv, UidInv, [Next]_vars
    PROVE  UidInv'
<1>1. CASE ParseRequest \/ CheckAuthorization \/ Finish
  <2>1. pc' \in {"authorise", "setuid", "error", "cleanup"}
    BY <1>1 DEF ParseRequest, CheckAuthorization, Finish, Error
  <2> QED
    BY <2>1 DEF UidInv, ServingAt
<1>2. CASE SetUid
  <2>1. pc = "setuid" /\ UNCHANGED <<env, hops>> /\ uid' = IF uid = "root" THEN NewUid ELSE uid
    BY <1>2 DEF SetUid
  <2>2. NewUid # "root"
    BY IdsAssumption DEF NewUid, EnvInv, IdsRight
  <2>3. env.HTProt # None /\ env.HTProt.ids # None => NewUid \in {env.HTProt.ids, env.HTUser}
    BY DEF NewUid, EnvInv, IdsRight
  <2>4. hops = 0 => uid = "root"
    BY <2>1 DEF HopInv
  <2> QED
    BY <2>1, <2>2, <2>3, <2>4 DEF UidInv
<1>3. CASE ~ParseRequest /\ ~CheckAuthorization /\ ~SetUid /\ ~Finish
  BY <1>3, QuietSteps DEF Quiet, SameUrl, UidInv, ServingAt
<1> QED
  BY <1>1, <1>2, <1>3

-----------------------------------------------------------------------------
(* The script process and the alarm clock                                  *)

\* There is no script.
LEMMA ScriptInvInit == Init => ScriptInv
BY DEF Init, ScriptInv, NoScript

\* A script that has been started.
LEMMA ForkedScript ==
    ASSUME Fork
    PROVE  /\ DOMAIN script' = DOMAIN NoScript
           /\ script'.state = "running" /\ script'.open = TRUE
           /\ script'.headers = FALSE
BY DEF Fork, NoScript

\* The status of a script that writes its own headers.
LEMMA AfterNph ==
    ASSUME DOMAIN env = Fields, NphStatus
    PROVE  env'.HTReqScript = env.HTReqScript
BY DEF NphStatus, Fields

\* Every step keeps the script in its place.
LEMMA ScriptInvStep ==
    ASSUME EnvInv, SentInv, ScriptInv, [Next]_vars
    PROVE  ScriptInv'
<1>1. DOMAIN env = Fields
  BY DEF EnvInv
<1>2. CASE ParseRequest \/ ParseFails \/ CheckAuthorization \/ SetUid \/ CleanUp
  BY <1>2 DEF ParseRequest, ParseFails, CheckAuthorization, SetUid, CleanUp, Error, ScriptInv, ScriptAt
<1>3. CASE HTLoadError
  <2>1. pc' \in {"finish", "cleanup", "exit"} /\ UNCHANGED script /\ pc = "error"
    BY <1>3 DEF HTLoadError, SentInv
  <2> QED
    BY <2>1 DEF ScriptInv, ScriptAt
<1>4. CASE ErrorToNobody \/ RelayToNobody \/ OutputToNobody
  BY <1>4 DEF ErrorToNobody, RelayToNobody, OutputToNobody, Die, ScriptInv, ScriptAt
<1>5. CASE ServeGateway \/ ServeRedirection \/ ServeScript \/ ServeDocument
  BY <1>5 DEF ServeGateway, ServeRedirection, ServeScript, ServeDocument, Error, ScriptInv, ScriptAt
<1>6. CASE ServeSearch \/ ServeByMethod
  <2>1. pc = "serve" /\ UNCHANGED script /\ pc' \in {"call", "error"}
    BY <1>6 DEF ServeSearch, ServeByMethod, Error
  <2>2. pc' = "call" => env'.HTReqScript # None
    BY <1>1, <1>6 DEF ServeSearch, ServeByMethod, Error, Fields
  <2> QED
    BY <2>1, <2>2 DEF ScriptInv, ScriptAt
<1>7. CASE Relay \/ HTLoadRedirection \/ Load \/ CallFails
  <2>1. UNCHANGED script /\ pc' \in {"finish", "error"} /\ pc \notin ScriptAt
    BY <1>7 DEF Relay, HTLoadRedirection, Load, CallFails, Error, ScriptAt
  <2> QED
    BY <2>1 DEF ScriptInv, ScriptAt
<1>8. CASE Fork
  <2>1. pc = "call" /\ pc' \in {"body", "output", "wait"} /\ (env' = env \/ NphStatus)
    BY <1>8 DEF Fork, AfterBody
  <2> QED
    BY <1>1, <1>8, <2>1, ForkedScript, AfterNph DEF ScriptInv, ScriptAt
<1>9. CASE GetBlock \/ GiveBlock \/ BlockRefused
  BY <1>9 DEF GetBlock, GiveBlock, BlockRefused, ScriptInv, ScriptAt, NoScript
<1>10. CASE BodyGiven
  <2>1. pc = "body" /\ pc' \in {"output", "wait"} /\ NphStatus /\ UNCHANGED script
    BY <1>10 DEF BodyGiven, AfterBody
  <2> QED
    BY <1>1, <2>1, AfterNph DEF ScriptInv, ScriptAt
<1>11. CASE ScriptReads \/ ScriptCloses \/ ScriptExits \/ ClientChanges
  BY <1>11 DEF ScriptReads, ScriptCloses, ScriptExits, ClientChanges, ScriptInv, ScriptAt, NoScript
<1>12. CASE ScriptWrites
  BY <1>12 DEF ScriptWrites, ScriptInv, ScriptAt, NoScript
<1>13. CASE TimedOut
  BY <1>13 DEF TimedOut, ScriptInv, ScriptAt
<1>14. CASE ReadLocal
  BY <1>1, <1>14 DEF ReadLocal, ScriptInv, ScriptAt, Fields
<1>15. CASE ReadElsewhere
  <2> DEFINE e == [env EXCEPT !.status_code = 302, !.HTReasonLine = "Found"]
  <2>1. env' = HTReplyHeaders(e) /\ pc = "output" /\ pc' = "wait" /\ script' = [script EXCEPT !.out = @ - 1]
    BY <1>15 DEF ReadElsewhere
  <2>2. DOMAIN e = Fields /\ e.HTReqScript = env.HTReqScript
    BY <1>1 DEF Fields
  <2> HIDE DEF e
  <2>3. env'.HTReqScript = env.HTReqScript
    BY <2>1, <2>2, HeadersSameUrl
  <2> QED
    BY <2>1, <2>3 DEF ScriptInv, ScriptAt
<1>16. CASE ReadDocument
  BY <1>16 DEF ReadDocument, ScriptInv, ScriptAt
<1>17. CASE EndOfOutput
  <2>1. pc = "output" /\ pc' = "wait" /\ UNCHANGED script /\ env'.HTReqScript = env.HTReqScript
    BY <1>1, <1>17, HeadersSameUrl DEF EndOfOutput
  <2> QED
    BY <2>1 DEF ScriptInv, ScriptAt
<1>18. CASE Wait
  BY <1>18 DEF Wait, ScriptInv, ScriptAt, NoScript
<1>19. CASE Finish
  <2>1. pc = "finish" /\ UNCHANGED script /\ pc' \in {"cleanup", "authorise", "error"}
    BY <1>19 DEF Finish, Error
  <2> QED
    BY <2>1 DEF ScriptInv, ScriptAt
<1>20. CASE UNCHANGED vars
  BY <1>20 DEF vars, ScriptInv
<1> QED
  BY <1>2, <1>3, <1>4, <1>5, <1>6, <1>7, <1>8, <1>9, <1>10, <1>11, <1>12, <1>13, <1>14, <1>15, <1>16,
     <1>17, <1>18, <1>19, <1>20 DEF Next, Work, Script

\* The alarm clock of the start.
LEMMA TimerInvInit == Init => TimerInv
BY DEF Init, TimerInv

\* Every step keeps the alarm clock set.
LEMMA TimerInvStep ==
    ASSUME SentInv, ScriptInv, TimerInv, [Next]_vars
    PROVE  TimerInv'
<1>2. CASE ParseRequest \/ ParseFails \/ CheckAuthorization \/ SetUid \/ CleanUp
  <2>1. pc' \in {"authorise", "setuid", "serve", "error", "cleanup", "exit"}
    BY <1>2 DEF ParseRequest, ParseFails, CheckAuthorization, SetUid, CleanUp, Error
  <2> QED
    BY <2>1 DEF TimerInv
<1>3. CASE HTLoadError
  <2>1. pc' \in {"finish", "cleanup", "exit"}
    BY <1>3 DEF HTLoadError, SentInv
  <2> QED
    BY <2>1 DEF TimerInv
<1>4. CASE ErrorToNobody \/ RelayToNobody \/ OutputToNobody
  BY <1>4 DEF ErrorToNobody, RelayToNobody, OutputToNobody, Die, TimerInv
<1>5. CASE ServeGateway \/ ServeRedirection \/ ServeScript \/ ServeDocument
  BY <1>5 DEF ServeGateway, ServeRedirection, ServeScript, ServeDocument, Error, TimerInv
<1>6. CASE ServeSearch \/ ServeByMethod \/ Relay \/ HTLoadRedirection \/ Load \/ CallFails \/ Wait \/ Finish
  <2>1. pc' \in {"call", "error", "finish", "cleanup", "authorise"}
    BY <1>6 DEF ServeSearch, ServeByMethod, Relay, HTLoadRedirection, Load, CallFails, Wait, Finish, Error
  <2> QED
    BY <2>1 DEF TimerInv
<1>8. CASE Fork
  BY <1>8 DEF Fork, AfterBody, TimerInv
<1>9. CASE GetBlock \/ GiveBlock
  BY <1>9 DEF GetBlock, GiveBlock, TimerInv, ScriptInv, NoScript
<1>10. CASE BlockRefused
  <2>1. script.state = "exited" \/ ~script.open
    BY <1>10 DEF BlockRefused, Listens, ScriptInv
  <2>2. script'.state = script.state /\ script'.open = script.open
    BY <1>10 DEF BlockRefused, ScriptInv, NoScript
  <2> QED
    BY <1>10, <2>1, <2>2 DEF BlockRefused, TimerInv
<1>11. CASE BodyGiven
  <2>1. Listens \/ script.state = "exited" \/ ~script.open
    BY <1>11 DEF BodyGiven, Listens, ScriptInv
  <2>2. pc = "body" /\ pc' \in {"output", "wait"} /\ timer' = (IF Listens THEN timer ELSE "lost") /\ UNCHANGED script
    BY <1>11 DEF BodyGiven, AfterBody
  <2>3. Listens => timer = "script"
    BY <2>2 DEF Listens, TimerInv
  <2> QED
    BY <2>1, <2>2, <2>3 DEF TimerInv
<1>12. CASE ScriptReads \/ ScriptCloses \/ ScriptExits
  BY <1>12 DEF ScriptReads, ScriptCloses, ScriptExits, Listens, TimerInv, ScriptInv, NoScript
<1>13. CASE ScriptWrites
  <2>1. script'.state = script.state /\ script'.open = script.open
    BY <1>13 DEF ScriptWrites, ScriptInv, NoScript
  <2> QED
    BY <1>13, <2>1 DEF ScriptWrites, TimerInv
<1>14. CASE ClientChanges \/ TimedOut
  BY <1>14 DEF ClientChanges, TimedOut, TimerInv
<1>15. CASE ReadLocal \/ ReadElsewhere \/ ReadDocument
  <2>1. script'.state = script.state /\ script'.open = script.open
    BY <1>15 DEF ReadLocal, ReadElsewhere, ReadDocument, ScriptInv, NoScript
  <2> QED
    BY <1>15, <2>1 DEF ReadLocal, ReadElsewhere, ReadDocument, TimerInv
<1>16. CASE EndOfOutput
  BY <1>16 DEF EndOfOutput, TimerInv
<1>20. CASE UNCHANGED vars
  BY <1>20 DEF vars, TimerInv
<1> QED
  BY <1>2, <1>3, <1>4, <1>5, <1>6, <1>8, <1>9, <1>10, <1>11, <1>12, <1>13, <1>14, <1>15, <1>16,
     <1>20 DEF Next, Work, Script

-----------------------------------------------------------------------------
(* What is sent                                                            *)

\* What a sequence is with one more.
LEMMA Appended ==
    ASSUME NEW s, IsASequence(s), NEW x
    PROVE  LET t == Append(s, x) IN
           /\ IsASequence(t)
           /\ Len(s) \in Nat /\ DOMAIN s = 1 .. Len(s) /\ (s = <<>> <=> Len(s) = 0)
           /\ Len(t) = Len(s) + 1 /\ DOMAIN t = 1 .. Len(s) + 1 /\ t # <<>>
           /\ \A i \in DOMAIN s : t[i] = s[i]
           /\ t[Len(s) + 1] = x
<1>1. PICK S : s \in Seq(S)
  BY DEF IsASequence
<1>2. Len(s) \in Nat /\ DOMAIN s = 1 .. Len(s) /\ (s = <<>> <=> Len(s) = 0)
  BY <1>1
<1>3. s \in Seq(S \cup {x})
  BY <1>1
<1>4. /\ Append(s, x) \in Seq(S \cup {x}) /\ Len(Append(s, x)) = Len(s) + 1
      /\ DOMAIN Append(s, x) = 1 .. Len(s) + 1 /\ Append(s, x) # <<>>
      /\ \A i \in 1 .. Len(s) : Append(s, x)[i] = s[i]
      /\ Append(s, x)[Len(s) + 1] = x
  BY <1>2, <1>3
<1> QED
  BY <1>2, <1>4 DEF IsASequence

\* A step sends nothing, or one reply.
SendsNothing == sent' = sent /\ (req'.method = "HEAD" => req.method = "HEAD")

\* One reply.
SendsOne ==
    \E code, why, body_ :
        /\ sent' = Append(sent, Reply(code, why, body_))
        /\ req' = req
        /\ body_ /\ req.method = "HEAD" => why = "by the script"

\* A step sends nothing or one reply, and that without a body if HEAD was asked.
LEMMA SendingSteps ==
    ASSUME HopInv, [Next]_vars
    PROVE  SendsNothing \/ SendsOne
<1>1. CASE ParseRequest \/ ParseFails \/ CheckAuthorization \/ SetUid \/ CleanUp \/ ErrorToNobody
           \/ RelayToNobody \/ OutputToNobody
  BY <1>1 DEF ParseRequest, ParseFails, CheckAuthorization, SetUid, CleanUp, ErrorToNobody, RelayToNobody,
       OutputToNobody, Die, SendsNothing
<1>2. CASE ServeGateway \/ ServeRedirection \/ ServeScript \/ ServeDocument \/ ServeSearch \/ ServeByMethod
           \/ CallFails
  BY <1>2 DEF ServeGateway, ServeRedirection, ServeScript, ServeDocument, ServeSearch, ServeByMethod,
       CallFails, SendsNothing
<1>3. CASE Fork \/ GetBlock \/ GiveBlock \/ BlockRefused \/ BodyGiven \/ ReadLocal \/ Wait
  BY <1>3 DEF Fork, GetBlock, GiveBlock, BlockRefused, BodyGiven, ReadLocal, Wait, SendsNothing
<1>4. CASE ScriptReads \/ ScriptCloses \/ ScriptExits \/ ClientChanges \/ TimedOut \/ UNCHANGED vars
  BY <1>4 DEF ScriptReads, ScriptCloses, ScriptExits, ClientChanges, TimedOut, vars, SendsNothing
<1>5. CASE HTLoadError \/ Relay
  BY <1>5 DEF HTLoadError, Relay, SendsOne
<1>6. CASE HTLoadRedirection
  BY <1>6 DEF HTLoadRedirection, Send, SendsOne
<1>7. CASE Load
  <2>1. PICK modified \in BOOLEAN :
          sent' = Append(sent, Reply(env'.status_code, env'.HTReasonLine, modified /\ req.method = "GET"))
    BY <1>7 DEF Load, Send
  <2>2. req' = req
    BY <1>7 DEF Load
  <2> QED
    BY <2>1, <2>2 DEF SendsOne
<1>8. CASE ScriptWrites
  BY <1>8 DEF ScriptWrites, SendsNothing, SendsOne
<1>9. CASE ReadElsewhere
  <2>1. sent' = Append(sent, Reply(env'.status_code, env'.HTReasonLine, req.method # "HEAD")) /\ req' = req
    BY <1>9 DEF ReadElsewhere, Send
  <2> QED
    BY <2>1 DEF SendsOne
<1>10. CASE ReadDocument
  BY <1>10 DEF ReadDocument, SendsNothing, SendsOne
<1>11. CASE EndOfOutput
  BY <1>11 DEF EndOfOutput, Send, SendsNothing, SendsOne
<1>12. CASE Finish
  BY <1>12 DEF Finish, SendsNothing, HopInv, ReqFields
<1> QED
  BY <1>1, <1>2, <1>3, <1>4, <1>5, <1>6, <1>7, <1>8, <1>9, <1>10, <1>11, <1>12 DEF Next, Work, Script

\* What was sent stays sent.
LEMMA AfterSending ==
    ASSUME SentInv, SendsNothing \/ SendsOne
    PROVE  /\ IsASequence(sent') /\ HeadHasNoBody'
           /\ sent # <<>> => sent' # <<>> /\ sent'[1] = sent[1]
<1>1. CASE SendsNothing
  BY <1>1 DEF SendsNothing, SentInv, HeadHasNoBody
<1>2. CASE SendsOne
  <2>1. PICK code, why, body_ :
          /\ sent' = Append(sent, Reply(code, why, body_))
          /\ req' = req
          /\ body_ /\ req.method = "HEAD" => why = "by the script"
    BY <1>2 DEF SendsOne
  <2> DEFINE x == Reply(code, why, body_)
  <2>2. x.body = body_ /\ x.why = why
    BY DEF Reply
  <2> HIDE DEF x
  <2>3. /\ IsASequence(sent')
        /\ Len(sent) \in Nat /\ DOMAIN sent = 1 .. Len(sent) /\ (sent = <<>> <=> Len(sent) = 0)
        /\ DOMAIN sent' = 1 .. Len(sent) + 1 /\ sent' # <<>>
        /\ \A i \in DOMAIN sent : sent'[i] = sent[i]
        /\ sent'[Len(sent) + 1] = x
    <3>1. sent' = Append(sent, x) /\ IsASequence(sent)
      BY <2>1 DEF SentInv, x
    <3> QED
      BY <3>1, Appended
  <2>4. HeadHasNoBody'
    <3> SUFFICES ASSUME NEW i \in DOMAIN sent', sent'[i].body, req'.method = "HEAD"
                 PROVE  sent'[i].why = "by the script"
      BY DEF HeadHasNoBody
    <3>1. CASE i \in DOMAIN sent
      BY <2>1, <2>3, <3>1 DEF SentInv, HeadHasNoBody
    <3>2. CASE i = Len(sent) + 1
      BY <2>1, <2>2, <2>3, <3>2
    <3> QED
      <4> DEFINE n == Len(sent)
      <4>1. n \in Nat /\ i \in 1 .. n + 1 /\ DOMAIN sent = 1 .. n
        BY <2>3
      <4> HIDE DEF n
      <4>2. i \in 1 .. n \/ i = n + 1
        BY <4>1
      <4> QED
        BY <3>1, <3>2, <4>1, <4>2 DEF n
  <2>5. sent # <<>> => sent'[1] = sent[1]
    BY <2>3
  <2> QED
    BY <2>3, <2>4, <2>5
<1> QED
  BY <1>1, <1>2

\* Nothing is sent.
LEMMA SentInvInit == Init => SentInv
<1>1. IsASequence(<<>>)
  BY DEF IsASequence
<1> QED
  BY <1>1 DEF Init, SentInv, HeadHasNoBody

\* What an error leads to.
LEMMA ErrorNext ==
    ASSUME SentInv, [Next]_vars, pc' = "error"
    PROVE  err'.next \in {"finish", "cleanup"}
<1>1. CASE UNCHANGED <<pc, err>>
  BY <1>1 DEF SentInv
<1>2. CASE ParseRequest \/ CheckAuthorization \/ ServeGateway \/ ServeSearch \/ ServeByMethod \/ CallFails \/ Finish
  <2>1. CASE ParseRequest
    <3>1. err' = [num |-> 400, why |-> "Invalid request", next |-> "cleanup"]
            \/ err' = [num |-> 403, why |-> "Method disabled", next |-> "cleanup"]
      BY <2>1 DEF ParseRequest, Error
    <3>2. CASE err' = [num |-> 400, why |-> "Invalid request", next |-> "cleanup"]
      BY <3>2
    <3>3. CASE err' = [num |-> 403, why |-> "Method disabled", next |-> "cleanup"]
      BY <3>3
    <3> QED
      BY <3>1, <3>2, <3>3
  <2>2. CASE CheckAuthorization
    BY <2>2 DEF CheckAuthorization, Error
  <2>3. CASE ServeGateway
    <3>1. err' = [num |-> 404, why |-> "not in cache", next |-> "finish"]
      BY <2>3 DEF ServeGateway, Error
    <3> QED
      BY <3>1
  <2>4. CASE ServeSearch
    <3>1. err' = [num |-> 501, why |-> "no searches", next |-> "finish"]
      BY <2>4 DEF ServeSearch, Error
    <3> QED
      BY <3>1
  <2>5. CASE ServeByMethod
    <3>1. err' = [num |-> 500, why |-> "not configured", next |-> "finish"]
            \/ err' = [num |-> 501, why |-> "not implemented", next |-> "finish"]
      BY <2>5 DEF ServeByMethod, Error
    <3>2. CASE err' = [num |-> 500, why |-> "not configured", next |-> "finish"]
      BY <3>2
    <3>3. CASE err' = [num |-> 501, why |-> "not implemented", next |-> "finish"]
      BY <3>3
    <3> QED
      BY <3>1, <3>2, <3>3
  <2>6. CASE CallFails
    <3>1. err' = [num |-> 500, why |-> "Bad script request", next |-> "finish"]
      BY <2>6 DEF CallFails, Error
    <3> QED
      BY <3>1
  <2>7. CASE Finish
    <3>1. err' = [num |-> 501, why |-> "Too many hops", next |-> "cleanup"]
      BY <2>7 DEF Finish, Error
    <3> QED
      BY <3>1
  <2> QED
    BY <1>2, <2>1, <2>2, <2>3, <2>4, <2>5, <2>6, <2>7
<1>3. CASE HTLoadError
  BY <1>3 DEF HTLoadError, SentInv
<1>4. CASE ErrorToNobody \/ RelayToNobody \/ OutputToNobody \/ TimedOut
  BY <1>1, <1>4 DEF ErrorToNobody, RelayToNobody, OutputToNobody, Die, TimedOut
<1>5. CASE ParseFails \/ SetUid \/ CleanUp \/ Relay \/ HTLoadRedirection \/ Load \/ ServeRedirection \/ ServeScript
           \/ ServeDocument \/ ReadLocal \/ ReadElsewhere \/ EndOfOutput \/ Wait
  BY <1>5 DEF ParseFails, SetUid, CleanUp, Relay, HTLoadRedirection, Load, ServeRedirection, ServeScript,
       ServeDocument, ReadLocal, ReadElsewhere, EndOfOutput, Wait
<1>6. CASE Fork \/ BodyGiven
  BY <1>6 DEF Fork, BodyGiven, AfterBody
<1>7. CASE GetBlock \/ GiveBlock \/ BlockRefused \/ ReadDocument \/ ScriptReads \/ ScriptCloses \/ ScriptWrites
           \/ ScriptExits \/ ClientChanges \/ UNCHANGED vars
  BY <1>1, <1>7 DEF GetBlock, GiveBlock, BlockRefused, ReadDocument, ScriptReads, ScriptCloses, ScriptWrites,
       ScriptExits, ClientChanges, vars
<1> QED
  BY <1>2, <1>3, <1>4, <1>5, <1>6, <1>7 DEF Next, Work, Script

\* How a request comes to its end.
LEMMA EndReached ==
    ASSUME EnvInv, SentInv, ScriptInv, [Next]_vars, pc' \in {"finish", "cleanup"}
    PROVE  sent' # <<>> \/ client' = "gone" \/ env'.HTReqScript # None
<1> DEFINE Done == sent' # <<>> \/ client' = "gone" \/ env'.HTReqScript # None
<1>0. ASSUME NEW x, sent' = Append(sent, x) PROVE Done
  BY <1>0, Appended DEF SentInv
<1>1. CASE ParseFails \/ RelayToNobody
  BY <1>1 DEF ParseFails, RelayToNobody, Die
<1>2. CASE HTLoadError \/ Relay
  BY <1>0, <1>2 DEF HTLoadError, Relay
<1>3. CASE HTLoadRedirection
  BY <1>0, <1>3 DEF HTLoadRedirection, Send
<1>4. CASE Load
  BY <1>0, <1>4 DEF Load, Send
<1>5. CASE Wait
  BY <1>5 DEF Wait, ScriptInv
<1>6. CASE Finish
  BY <1>6 DEF Finish, Error, SentInv
<1>7. CASE ClientChanges
  BY <1>7 DEF ClientChanges, SentInv
<1>8. CASE UNCHANGED vars
  BY <1>8 DEF vars, SentInv
<1>9. CASE ParseRequest \/ CheckAuthorization \/ ServeGateway \/ ServeSearch \/ ServeByMethod \/ CallFails
           \/ ErrorToNobody \/ OutputToNobody \/ TimedOut \/ SetUid \/ CleanUp \/ ServeRedirection \/ ServeScript
           \/ ServeDocument \/ ReadLocal \/ ReadElsewhere \/ EndOfOutput
  BY <1>9 DEF ParseRequest, CheckAuthorization, ServeGateway, ServeSearch, ServeByMethod, CallFails, Error,
       ErrorToNobody, OutputToNobody, Die, TimedOut, SetUid, CleanUp, ServeRedirection, ServeScript,
       ServeDocument, ReadLocal, ReadElsewhere, EndOfOutput
<1>10. CASE Fork \/ BodyGiven \/ GetBlock \/ GiveBlock \/ BlockRefused \/ ReadDocument
  BY <1>10 DEF Fork, BodyGiven, AfterBody, GetBlock, GiveBlock, BlockRefused, ReadDocument
<1>11. CASE ScriptReads \/ ScriptCloses \/ ScriptExits
  BY <1>11 DEF ScriptReads, ScriptCloses, ScriptExits, Listens, ScriptInv, ScriptAt
<1>12. CASE ScriptWrites
  BY <1>12 DEF ScriptWrites, ScriptInv, ScriptAt
<1> QED
  BY <1>1, <1>2, <1>3, <1>4, <1>5, <1>6, <1>7, <1>8, <1>9, <1>10, <1>11, <1>12 DEF Next, Work, Script

\* Every step keeps what is sent right.
LEMMA SentInvStep ==
    ASSUME EnvInv, HopInv, SentInv, ScriptInv, [Next]_vars
    PROVE  SentInv'
BY SendingSteps, AfterSending, ErrorNext, EndReached DEF SentInv, IsASequence

-----------------------------------------------------------------------------
(* One answer                                                              *)

\* The first reply.
LEMMA FirstReply ==
    ASSUME sent = <<>>, NEW code, NEW why, NEW body_, sent' = Append(sent, Reply(code, why, body_))
    PROVE  Len(sent') = 1 /\ sent' # <<>> /\ sent'[1].why = why
<1> DEFINE x == Reply(code, why, body_)
<1>1. x.why = why
  BY DEF Reply
<1> HIDE DEF x
<1>2. IsASequence(<<>>) /\ Len(<<>>) = 0
  BY DEF IsASequence
<1>3. sent' = Append(<<>>, x)
  BY DEF x
<1>4. Len(sent') = 1 /\ sent' # <<>> /\ sent'[1] = x
  <2> DEFINE e == <<>>
             n == Len(e)
  <2>1. IsASequence(e) /\ n = 0
    BY <1>2
  <2> HIDE DEF e, n
  <2>2. Len(Append(e, x)) = n + 1 /\ Append(e, x) # <<>> /\ Append(e, x)[n + 1] = x
    BY <2>1, Appended DEF n
  <2>3. n + 1 = 1
    BY <2>1
  <2>4. Len(Append(e, x)) = 1 /\ Append(e, x) # <<>> /\ Append(e, x)[1] = x
    BY <2>2, <2>3
  <2> QED
    BY <1>3, <2>4 DEF e
<1> QED
  BY <1>1, <1>4

\* An error is the end of the request, or the end has been told of it, or it is one of those
\* that leave `status' unassigned.
LEMMA NewError ==
    ASSUME [Next]_vars, SentInv, pc # "error", pc' = "error"
    PROVE  err'.next = "cleanup" \/ status' = "HT_LOADED" \/ err'.why \in Unassigned
<1>2. CASE ParseRequest \/ CheckAuthorization \/ ServeGateway \/ ServeSearch \/ ServeByMethod \/ CallFails \/ Finish
  <2>1. CASE ParseRequest
    <3>1. err' = [num |-> 400, why |-> "Invalid request", next |-> "cleanup"]
            \/ err' = [num |-> 403, why |-> "Method disabled", next |-> "cleanup"]
      BY <2>1 DEF ParseRequest, Error
    <3>2. CASE err' = [num |-> 400, why |-> "Invalid request", next |-> "cleanup"]
      BY <3>2
    <3>3. CASE err' = [num |-> 403, why |-> "Method disabled", next |-> "cleanup"]
      BY <3>3
    <3> QED
      BY <3>1, <3>2, <3>3
  <2>2. CASE CheckAuthorization
    BY <2>2 DEF CheckAuthorization, Error
  <2>3. CASE ServeGateway
    <3>1. err' = [num |-> 404, why |-> "not in cache", next |-> "finish"]
      BY <2>3 DEF ServeGateway, Error
    <3> QED
      BY <3>1 DEF Unassigned
  <2>4. CASE ServeSearch
    BY <2>4 DEF ServeSearch, Error
  <2>5. CASE ServeByMethod
    <3>1. err' = [num |-> 500, why |-> "not configured", next |-> "finish"]
            \/ err' = [num |-> 501, why |-> "not implemented", next |-> "finish"]
      BY <2>5 DEF ServeByMethod, Error
    <3>2. CASE err' = [num |-> 500, why |-> "not configured", next |-> "finish"]
      BY <3>2 DEF Unassigned
    <3>3. CASE err' = [num |-> 501, why |-> "not implemented", next |-> "finish"]
      BY <3>3 DEF Unassigned
    <3> QED
      BY <3>1, <3>2, <3>3
  <2>6. CASE CallFails
    BY <2>6 DEF CallFails
  <2>7. CASE Finish
    <3>1. err' = [num |-> 501, why |-> "Too many hops", next |-> "cleanup"]
      BY <2>7 DEF Finish, Error
    <3> QED
      BY <3>1
  <2> QED
    BY <1>2, <2>1, <2>2, <2>3, <2>4, <2>5, <2>6, <2>7
<1>3. CASE HTLoadError
  BY <1>3 DEF HTLoadError
<1>4. CASE ErrorToNobody \/ RelayToNobody \/ OutputToNobody \/ TimedOut
  BY <1>4 DEF ErrorToNobody, RelayToNobody, OutputToNobody, Die, TimedOut
<1>5. CASE ParseFails \/ SetUid \/ CleanUp \/ Relay \/ HTLoadRedirection \/ Load \/ ServeRedirection \/ ServeScript
           \/ ServeDocument \/ ReadLocal \/ ReadElsewhere \/ EndOfOutput \/ Wait
  BY <1>5 DEF ParseFails, SetUid, CleanUp, Relay, HTLoadRedirection, Load, ServeRedirection, ServeScript,
       ServeDocument, ReadLocal, ReadElsewhere, EndOfOutput, Wait
<1>6. CASE Fork \/ BodyGiven
  BY <1>6 DEF Fork, BodyGiven, AfterBody
<1>7. CASE GetBlock \/ GiveBlock \/ BlockRefused \/ ReadDocument \/ ScriptReads \/ ScriptCloses \/ ScriptWrites
           \/ ScriptExits \/ ClientChanges \/ UNCHANGED vars
  BY <1>7 DEF GetBlock, GiveBlock, BlockRefused, ReadDocument, ScriptReads, ScriptCloses, ScriptWrites,
       ScriptExits, ClientChanges, vars
<1> QED
  BY <1>2, <1>3, <1>4, <1>5, <1>6, <1>7 DEF Next, Work, Script

\* Nothing is sent.
LEMMA OnceInvInit == Init => OnceInv
<1>1. Len(<<>>) = 0
  OBVIOUS
<1> QED
  BY <1>1 DEF Init, OnceInv, Orderly

\* Every step keeps to one answer.
LEMMA OnceInvStep ==
    ASSUME EnvInv, HopInv, SentInv, ScriptInv, OnceInv, [Next]_vars
    PROVE  OnceInv'
<1>0. DOMAIN env = Fields
  BY DEF EnvInv
<1>1. CASE Exempt
  BY <1>1, SendingSteps, AfterSending DEF Exempt, OnceInv
<1>2. CASE ~Exempt
  <2>1. Orderly
    BY <1>2 DEF OnceInv
  \* An action that leads from where nothing is sent to where nothing need be known.
  <2>2. ASSUME UNCHANGED sent, sent = <<>>, pc' \notin {"output", "wait", "error"}
        PROVE  Orderly'
    BY <2>1, <2>2 DEF Orderly
  <2>3. ASSUME UNCHANGED sent, sent = <<>>, pc # "error", pc' \notin {"output", "wait"}
        PROVE  Orderly'
    BY <2>1, <2>3, NewError DEF Orderly
  <2>4. ASSUME NEW code, NEW why, NEW body_, sent' = Append(sent, Reply(code, why, body_)),
               sent = <<>>, pc' \in {"finish", "cleanup", "exit"}, pc' = "finish" => status' = "HT_LOADED"
        PROVE  Orderly'
    BY <2>4, FirstReply DEF Orderly
  <2>5. CASE ParseRequest \/ ParseFails \/ CheckAuthorization \/ SetUid \/ ServeGateway \/ ServeRedirection
             \/ ServeScript \/ ServeDocument \/ ServeSearch \/ ServeByMethod \/ CallFails \/ RelayToNobody
    <3>1. UNCHANGED sent /\ pc \notin {"error", "finish", "cleanup", "exit", "wait", "body", "output"}
      BY <2>5 DEF ParseRequest, ParseFails, CheckAuthorization, SetUid, ServeGateway, ServeRedirection,
         ServeScript, ServeDocument, ServeSearch, ServeByMethod, CallFails, RelayToNobody, Die
    <3>2. pc' \notin {"output", "wait"}
      BY <2>5 DEF ParseRequest, ParseFails, CheckAuthorization, SetUid, ServeGateway, ServeRedirection,
         ServeScript, ServeDocument, ServeSearch, ServeByMethod, CallFails, RelayToNobody, Die, Error
    <3>3. sent = <<>>
      BY <2>1, <3>1 DEF Orderly
    <3> QED
      BY <2>3, <3>1, <3>2, <3>3 DEF OnceInv
  <2>6. CASE ErrorToNobody \/ OutputToNobody \/ TimedOut \/ CleanUp
    BY <2>1, <2>6 DEF ErrorToNobody, OutputToNobody, TimedOut, CleanUp, Die, Orderly, OnceInv
  <2>7. CASE HTLoadError
    <3>1. pc = "error" /\ sent = <<>>
      BY <2>1, <2>7 DEF HTLoadError, Orderly
    <3>2. PICK code, why, body_ : sent' = Append(sent, Reply(code, why, body_)) /\ why = err.why
      BY <2>7 DEF HTLoadError
    <3>3. pc' = err.next /\ pc' \in {"finish", "cleanup"} /\ UNCHANGED status
      BY <2>7, <3>1 DEF HTLoadError, SentInv
    <3>4. CASE err.next = "cleanup" \/ status = "HT_LOADED"
      BY <2>4, <3>1, <3>2, <3>3, <3>4 DEF OnceInv
    <3>5. CASE err.why \in Unassigned
      <4>1. sent' # <<>> /\ sent'[1].why = why
        BY <3>1, <3>2, FirstReply
      <4> QED
        BY <3>2, <3>5, <4>1 DEF Exempt, OnceInv
    <3> QED
      BY <2>1, <3>1, <3>4, <3>5 DEF Orderly
  <2>8. CASE Relay \/ HTLoadRedirection \/ Load
    <3>1. pc \in {"relay", "redirect", "load"} /\ pc' = "finish" /\ status' = "HT_LOADED"
      BY <2>8 DEF Relay, HTLoadRedirection, Load
    <3>2. sent = <<>>
      BY <2>1, <3>1 DEF Orderly
    <3>3. \E code, why, body_ : sent' = Append(sent, Reply(code, why, body_))
      <4>1. CASE Relay
        BY <4>1 DEF Relay
      <4>2. CASE HTLoadRedirection
        BY <4>2 DEF HTLoadRedirection, Send
      <4>3. CASE Load
        BY <4>3 DEF Load, Send
      <4> QED
        BY <2>8, <4>1, <4>2, <4>3
    <3> QED
      BY <2>4, <3>1, <3>2, <3>3 DEF OnceInv
  <2>9. CASE Fork \/ BodyGiven
    <3>1. pc \in {"call", "body"} /\ UNCHANGED <<sent, req>> /\ pc' \in {"body", "output", "wait"}
      BY <2>9 DEF Fork, BodyGiven, AfterBody
    <3>2. env'.HTReqScript = env.HTReqScript
      BY <1>0, <2>9, AfterNph DEF Fork, BodyGiven
    <3>3. IsNph' = IsNph
      BY <3>2 DEF IsNph
    <3>4. /\ pc' = "output" => ~IsNph
          /\ pc' = "wait" => IsNph /\ status' = "HT_LOADED"
      BY <2>9 DEF Fork, BodyGiven, AfterBody, NphStatus
    <3>5. CASE Fork
      <4>1. sent = <<>>
        BY <2>1, <3>5 DEF Fork, Orderly
      <4> QED
        BY <2>1, <3>1, <3>3, <3>4, <4>1 DEF Orderly, OnceInv
    <3>6. CASE BodyGiven
      <4>1. pc = "body" /\ UNCHANGED script /\ pc' \in {"output", "wait"}
        BY <3>6 DEF BodyGiven, AfterBody
      <4> QED
        BY <2>1, <3>1, <3>3, <3>4, <4>1 DEF Orderly, OnceInv
    <3> QED
      BY <2>9, <3>5, <3>6
  <2>10. CASE GetBlock \/ GiveBlock \/ BlockRefused \/ ScriptReads \/ ScriptCloses \/ ScriptExits
    <3>1. UNCHANGED <<pc, req, env, status, err, sent>> /\ script'.headers = script.headers
      BY <2>10 DEF GetBlock, GiveBlock, BlockRefused, ScriptReads, ScriptCloses, ScriptExits, ScriptInv, NoScript
    <3> QED
      BY <2>1, <3>1 DEF Orderly, OnceInv, IsNph
  <2>11. CASE ClientChanges \/ UNCHANGED vars
    BY <2>1, <2>11 DEF ClientChanges, vars, Orderly, OnceInv, IsNph
  <2>12. CASE ScriptWrites
    <3>1. UNCHANGED <<pc, req, env, status, err>> /\ pc \in {"body", "output", "wait"}
      BY <2>12 DEF ScriptWrites, ScriptInv, ScriptAt
    <3>2. IsNph' = IsNph
      BY <3>1 DEF IsNph
    <3>3. CASE ~IsNph
      <4>1. UNCHANGED sent /\ script'.headers = script.headers
        BY <2>12, <3>3 DEF ScriptWrites, ScriptInv, NoScript
      <4> QED
        BY <2>1, <3>1, <3>2, <4>1 DEF Orderly, OnceInv
    <3>4. CASE IsNph
      <4>1. script'.headers = TRUE
        BY <2>12, <3>4 DEF ScriptWrites, ScriptInv, NoScript
      <4>2. pc \in {"body", "wait"}
        BY <2>1, <3>1, <3>4 DEF Orderly
      <4>3. CASE script.headers
        <5>1. UNCHANGED sent
          BY <2>12, <3>4, <4>3 DEF ScriptWrites
        <5> QED
          BY <2>1, <3>1, <3>2, <3>4, <4>1, <4>2, <5>1 DEF Orderly, OnceInv
      <4>4. CASE ~script.headers
        <5>1. sent = <<>>
          BY <2>1, <3>4, <4>2, <4>4 DEF Orderly
        <5>2. sent' = Append(sent, Reply(0, "by the script", TRUE))
          BY <2>12, <3>4, <4>4 DEF ScriptWrites
        <5>3. Len(sent') = 1
          BY <5>1, <5>2, FirstReply
        <5> QED
          BY <2>1, <3>1, <3>2, <3>4, <4>1, <4>2, <5>3 DEF Orderly, OnceInv
      <4> QED
        BY <4>3, <4>4
    <3> QED
      BY <3>3, <3>4
  <2>13. CASE ReadLocal
    <3>1. pc = "output" /\ pc' = "wait" /\ UNCHANGED sent /\ ~script.headers
          /\ env'.HTReqScript = env.HTReqScript
      BY <1>0, <2>13 DEF ReadLocal, Fields
    <3> QED
      BY <2>1, <3>1 DEF Orderly, OnceInv, IsNph
  <2>14. CASE ReadElsewhere
    <3>1. pc = "output" /\ pc' = "wait" /\ status' = "HT_LOADED" /\ ~script.headers
      BY <2>14 DEF ReadElsewhere
    <3>2. \E code, why, body_ : sent' = Append(sent, Reply(code, why, body_))
      BY <2>14 DEF ReadElsewhere, Send
    <3>3. sent = <<>> /\ ~IsNph
      BY <2>1, <3>1 DEF Orderly
    <3>4. Len(sent') = 1
      BY <3>2, <3>3, FirstReply
    <3>5. IsNph' = IsNph
      <4> DEFINE e == [env EXCEPT !.status_code = 302, !.HTReasonLine = "Found"]
      <4>1. env' = HTReplyHeaders(e)
        BY <2>14 DEF ReadElsewhere
      <4>2. DOMAIN e = Fields /\ e.HTReqScript = env.HTReqScript
        BY <1>0 DEF Fields
      <4> HIDE DEF e
      <4>3. env'.HTReqScript = env.HTReqScript
        BY <4>1, <4>2, HeadersSameUrl
      <4> QED
        BY <4>3 DEF IsNph
    <3> QED
      BY <3>1, <3>3, <3>4, <3>5 DEF Orderly, OnceInv
  <2>15. CASE ReadDocument
    <3>1. pc = "output" /\ UNCHANGED <<pc, req, env, status, err>> /\ script'.headers = TRUE
      BY <2>15 DEF ReadDocument, ScriptInv, NoScript
    <3>2. CASE req.http1 \/ script.headers
      <4>1. UNCHANGED sent
        BY <2>15, <3>2 DEF ReadDocument
      <4> QED
        BY <2>1, <3>1, <4>1 DEF Orderly, OnceInv, IsNph
    <3>3. CASE ~(req.http1 \/ script.headers)
      <4>1. sent = <<>>
        BY <2>1, <3>1, <3>3 DEF Orderly
      <4>2. \E code, why, body_ : sent' = Append(sent, Reply(code, why, body_))
        BY <2>15, <3>3 DEF ReadDocument
      <4>3. Len(sent') = 1
        BY <4>1, <4>2, FirstReply
      <4> QED
        BY <2>1, <3>1, <3>3, <4>3 DEF Orderly, OnceInv, IsNph
    <3> QED
      BY <3>2, <3>3
  <2>16. CASE EndOfOutput
    <3>1. pc = "output" /\ pc' = "wait" /\ status' = "HT_LOADED" /\ env'.HTReqScript = env.HTReqScript
      BY <1>0, <2>16, HeadersSameUrl DEF EndOfOutput
    <3>2. Len(sent') <= 1
      <4>1. CASE script.headers /\ req.http1
        <5>1. sent = <<>>
          BY <2>1, <3>1, <4>1 DEF Orderly
        <5>2. \E code, why, body_ : sent' = Append(sent, Reply(code, why, body_))
          BY <2>16, <4>1 DEF EndOfOutput, Send
        <5>3. Len(sent') = 1
          BY <5>1, <5>2, FirstReply
        <5> QED
          BY <5>3
      <4>2. CASE ~(script.headers /\ req.http1)
        BY <2>1, <2>16, <4>2 DEF EndOfOutput, Orderly
      <4> QED
        BY <4>1, <4>2
    <3> QED
      BY <2>1, <3>1, <3>2 DEF Orderly, OnceInv, IsNph
  <2>17. CASE Wait
    BY <2>1, <2>17 DEF Wait, Orderly, OnceInv
  <2>18. CASE Finish
    <3>1. pc = "finish" /\ UNCHANGED <<sent, status>> /\ pc' \in {"cleanup", "authorise", "error"}
      BY <2>18 DEF Finish, Error
    <3>2. CASE pc' = "cleanup"
      BY <2>1, <3>1, <3>2 DEF Orderly, OnceInv
    <3>3. CASE pc' # "cleanup"
      <4>1. status # "HT_LOADED"
        BY <2>18, <3>3 DEF Finish, StatusRead
      <4>2. sent = <<>>
        BY <2>1, <3>1, <4>1 DEF Orderly
      <4> QED
        BY <2>3, <3>1, <4>2 DEF OnceInv
    <3> QED
      BY <3>2, <3>3
  <2> QED
    BY <2>5, <2>6, <2>7, <2>8, <2>9, <2>10, <2>11, <2>12, <2>13, <2>14, <2>15, <2>16, <2>17, <2>18
       DEF Next, Work, Script
<1> QED
  BY <1>1, <1>2

-----------------------------------------------------------------------------
(* The theorems                                                            *)

\* The inductive invariant of a request: HTHandle and the script beside it, for any rules,
\* set-ups, files and scripts.
THEOREM RequestInductive == Spec => []RInv
<1>1. Init => RInv
  BY ScriptInvInit, TimerInvInit, SentInvInit, OnceInvInit, EnvInvInit, HopInvInit, UrlInvInit,
     AdmittedInvInit, ListInvInit, UidInvInit DEF RInv
<1>2. RInv /\ [Next]_vars => RInv'
  BY ScriptInvStep, TimerInvStep, SentInvStep, OnceInvStep, EnvInvStep, HopInvStep, UrlInvStep,
     AdmittedInvStep, ListInvStep, UidInvStep DEF RInv
<1> QED
  BY <1>1, <1>2, PTL DEF Spec

\* While the child reads, loads or waits for a script an alarm clock is running that ends
\* it: HTHandle, HTLoadScriptResult.  (set_signals may lose it where the script's end is near.)
THEOREM TimersCovered == Spec => []TimersCover
<1>1. RInv => TimersCover
  BY DEF RInv, TimerInv, TimersCover, Timers
<1> QED
  BY <1>1, RequestInductive, PTL

\* HTHandle: the client gets one answer, and no body if it asked for the HEAD; two only
\* where `status' was left unassigned.
THEOREM OneAnswer == Spec => []AnswerRight
<1>1. RInv => AnswerRight
  <2> SUFFICES ASSUME RInv PROVE AnswerRight
    OBVIOUS
  <2>1. HeadHasNoBody
    BY DEF RInv, SentInv
  <2>2. pc = "cleanup" /\ sent = <<>> => env.HTReqScript # None \/ client = "gone"
    BY DEF RInv, SentInv
  <2>3. Len(sent) > 1 => sent[1].why \in Unassigned
    <3>1. Len(sent) \in Nat
      BY Appended DEF RInv, SentInv
    <3> QED
      BY <3>1 DEF RInv, OnceInv, Exempt, Orderly
  <2> QED
    BY <2>1, <2>2, <2>3 DEF AnswerRight, AnsweredOnce, Unassigned
<1> QED
  BY <1>1, RequestInductive, PTL

\* In any environment, a refusal does not tell whether the file is there, where the list
\* treats the names of the file alike.
LEMMA FilesHidden ==
    ASSUME DOMAIN env = Fields, IdsRight(env)
    PROVE  ExistenceHidden
<1> SUFFICES ASSUME NEW file \in LocalFiles, NEW name \in Path \ Welcome, Acl[name] = Acl[file]
             PROVE  SameIfRefused(Authorise_(FoundAs(file, name), env), Authorise_(Without(file), env))
  BY DEF ExistenceHidden
<1> DEFINE p == FoundAs(file, name)
           q == Without(file)
<1>1. /\ p[file] = name /\ q[file] = None /\ file \notin Remote
      /\ file = HTTranslateReq(Rule, env).HTReqTranslated
      /\ name # None /\ name \notin Welcome
  BY PathAssumption DEF LocalFiles, FoundAs, Without
<1> HIDE DEF p, q
<1>2. LET P == HTAA_checkAuthorization(Remote, Rule, p, env, req.method, req.cred)
          Q == HTAA_checkAuthorization(Remote, Rule, q, env, req.method, req.cred)
      IN  P.status_code # 200 =>
              Q.status_code = P.status_code /\ Q.HTReasonLine = P.HTReasonLine
  BY <1>1, RulesRight, RefusedUnseen
<1> QED
  BY <1>2 DEF SameIfRefused, Authorise_, p, q

\* HTHandle: what is served has been admitted by the set-up of its own URL, whatever an
\* earlier URL of the request left in the environment, and by the list of its directory
\* under the name of the file; it is served with that set-up's identity, changes need a
\* set-up, and a refusal does not tell whether the file is there, if the list treats its
\* names alike.
THEOREM AccessGranted == Spec => []AccessRight
<1>1. RInv => AccessRight
  <2> SUFFICES ASSUME RInv PROVE AccessRight
    OBVIOUS
  <2>1. Serving <=> pc \in ServingAt
    BY DEF Serving, ServingAt
  <2>2. ProtectionHolds
    <3>1. Fresh = FreshFor(env.HTReqArg, req.method, req.cred)
      BY DEF Fresh, FreshFor, Authorise_
    <3> QED
      BY <2>1, <3>1 DEF RInv, AdmittedInv, OpenAt, Opens, ProtectionHolds
  <2>3. ServedAs
    BY <2>1 DEF RInv, UidInv, ServedAs
  <2>4. ChangesNeedPermission
    BY <2>1 DEF RInv, AdmittedInv, ChangesNeedPermission
  <2>5. ExistenceHidden
    BY FilesHidden DEF RInv, EnvInv
  <2>6. ListHolds
    BY DEF RInv, ListInv, ListHolds
  <2> QED
    BY <2>2, <2>3, <2>4, <2>5, <2>6 DEF AccessRight
<1> QED
  BY <1>1, RequestInductive, PTL

================================================================================
