------------------------------- MODULE Formats -------------------------------
(***************************************************************************)
(* What a document is and which of several a client wants: suffixes        *)
(* (Library/Implementation/HTFile.c), the choice of one file of a          *)
(* directory (HTMulti.c), and the ranks and conversions of HTFormat.c.     *)
(*                                                                         *)
(* A name is the sequence of its parts, as HTSplitFilename splits it; a    *)
(* content type is a pair, or <<"*">>, and a language a pair or <<"en">>;  *)
(* a quality is in tenths, that of a name in thousandths.                  *)
(***************************************************************************)
EXTENDS Integers, Sequences, SequencesExt, FiniteSetsExt

CONSTANTS
    Suffix,        \* HTSuffixes: a record for each known suffix
    DefaultType,   \* what unknown_suffix and no_suffix stand for
    MULTI_SUFFIX,  \* the part ".multi"
    WelcomeNames   \* HTAddWelcome, the first one first

Unset == <<>>
AnyType == <<"*">>

-----------------------------------------------------------------------------
(* Suffixes                                                                *)

\* One suffix of a name, from the last to the first: what an earlier one (further
\* behind) has set stays.
Described(st, part) ==
    LET keep(x, y) == IF x # Unset THEN x ELSE y IN
    IF st.stop THEN st
    ELSE IF part \notin DOMAIN Suffix THEN [st EXCEPT !.stop = TRUE]
    ELSE LET s == Suffix[part] IN
         [st EXCEPT !.type = keep(@, s.type), !.encoding = keep(@, s.encoding),
                    !.language = keep(@, s.language),
                    !.quality = IF s.quality > 0 THEN (@ * s.quality) \div 10 ELSE @]

\* NULL if the last suffix is not known.
HTGetContentDescription(name) ==
    LET none == [type |-> Unset, encoding |-> Unset, language |-> Unset, quality |-> 1000,
                 stop |-> FALSE] IN
    IF Len(name) < 2 \/ Last(name) \notin DOMAIN Suffix THEN Unset
    ELSE FoldLeft(Described, none, Reverse(Tail(name)))

WWW_BINARY == <<"application", "octet-stream">>

HTFileFormat(name) ==
    LET cd == HTGetContentDescription(name) IN
    IF cd = Unset THEN DefaultType ELSE IF cd.type = Unset THEN WWW_BINARY ELSE cd.type

-----------------------------------------------------------------------------
(* What the client accepts                                                 *)

wild_match(template, actual) ==
    \/ template = AnyType
    \/ /\ Len(template) = 2 /\ Len(actual) = 2
       /\ \/ template[1] = "*" /\ template[2] \in {"*", actual[2]}
          \/ template[2] = "*" /\ template[1] = actual[1]

\* The first that is the same, or else the last that matches, of a list that the
\* loop goes through from the front.
Accepting(list, S, M, none) ==
    IF S # {} THEN list[Min(S)].quality
    ELSE IF M # {} THEN list[Max(M)].quality ELSE none

\* The entries that are the same, and those that match.
Same(list, rep) == {i \in DOMAIN list : list[i].rep = rep}
Matching(list, rep) == {i \in DOMAIN list : wild_match(list[i].rep, rep)}

type_value(type, accepted) ==
    IF type = Unset THEN -1
    ELSE Accepting(accepted, Same(accepted, type), Matching(accepted, type), -1)

\* A language is the same without a country on one side.
lang_match(t, a) == Len(t) # Len(a) /\ t[1] = a[1]

lang_value(language, accepted) ==
    IF language = Unset \/ accepted = <<>> THEN 1
    ELSE Accepting(accepted, Same(accepted, language),
                   {i \in DOMAIN accepted : lang_match(accepted[i].rep, language)}, 1)

Identity == {<<"7bit">>, <<"8bit">>, <<"binary">>}

encoding_value(encoding, accepted) ==
    IF encoding \in Identity \cup {Unset} \/ accepted = <<>> THEN 10
    ELSE Accepting(accepted, Same(accepted, encoding), Matching(accepted, encoding), 10)

\* What HTRank makes of a candidate that is not thrown away.
Ranked(d, req) ==
    d.cd.quality * type_value(d.cd.type, req.types)
        * lang_value(d.cd.language, req.languages)
        * encoding_value(d.cd.encoding, req.encodings)

\* Mutant: the best is taken out first.
Worst_Best(list, req) ==
    CHOOSE i \in DOMAIN list :
        /\ \A j \in DOMAIN list : Ranked(list[i], req) >= Ranked(list[j], req)
        /\ \A j \in 1..i - 1 : Ranked(list[i], req) > Ranked(list[j], req)

\* The first of the worst ones.
Worst(list, req) ==
    CHOOSE i \in DOMAIN list :
        /\ \A j \in DOMAIN list : Ranked(list[i], req) <= Ranked(list[j], req)
        /\ \A j \in 1..i - 1 : Ranked(list[i], req) < Ranked(list[j], req)

\* The worst is taken out of the list again and again and put in front of those
\* that are sorted.
HTRank(possibilities, req) ==
    LET accepted == Reverse(SelectSeq(possibilities,
                                      LAMBDA d : type_value(d.cd.type, req.types) > 0))
        sort[n \in 0..Len(accepted)] ==
            IF n = 0 THEN [left |-> accepted, sorted |-> <<>>]
            ELSE LET st == sort[n - 1]
                     i == Worst(st.left, req)
                 IN  [left |-> RemoveAt(st.left, i), sorted |-> <<st.left[i]>> \o st.sorted]
    IN  sort[Len(accepted)].sorted

-----------------------------------------------------------------------------
(* Several files for one name                                              *)

\* The beginning of both names up to where they first differ is not empty, and all
\* the other parts that are required are found behind it.
multi_match(required, actual) ==
    LET differ == {k \in 1..Len(required) :
                     k > Len(actual) \/ required[k] # actual[k]}
        c == IF differ = {} THEN Len(required) ELSE Min(differ) - 1
    IN  /\ c > 0
        /\ \A i \in c + 1..Len(required) : \E j \in c + 1..Len(actual) : required[i] = actual[j]

\* The files of the directory that are candidates for a name, the last one first.
dir_matches(dir, name) ==
    LET base == IF Last(name) = MULTI_SUFFIX THEN Front(name) ELSE name
        described == [k \in DOMAIN dir |-> [file |-> dir[k],
                                            cd |-> HTGetContentDescription(dir[k].name)]]
    IN  Reverse(SelectSeq(described, LAMBDA d :
            multi_match(base, d.file.name) /\ d.cd # Unset /\ d.cd.type # Unset))

\* The best that is readable.
HTGetBest(dir, name, req) ==
    LET ranked == HTRank(dir_matches(dir, name), req)
        readable == SelectSeq(ranked, LAMBDA d : d.file.readable)
    IN  IF readable = <<>> THEN Unset ELSE readable[1].file.name

\* The list of the names is built backwards: a later one has a smaller value.
welcome_value(name) == Len(WelcomeNames) + 1 - Min({k \in DOMAIN WelcomeNames : WelcomeNames[k] = name})

get_best_welcome(dir) ==
    LET welcome == {k \in DOMAIN dir : dir[k].name \in Range(WelcomeNames)}
        best == {k \in welcome : \A j \in welcome :
                    welcome_value(dir[j].name) <= welcome_value(dir[k].name)}
    IN  IF best = {} THEN Unset ELSE dir[Min(best)].name

\* A name in a directory: one with MULTI_SUFFIX, one that is not there, or one that
\* is; the empty name is the directory's.
HTMulti(dir, name, req) ==
    LET names == {dir[k].name : k \in DOMAIN dir} IN
    IF name = <<>> THEN get_best_welcome(dir)
    ELSE IF Last(name) = MULTI_SUFFIX \/ name \notin names THEN HTGetBest(dir, name, req)
    ELSE name

-----------------------------------------------------------------------------
(* Conversions                                                             *)

Stars(type) == Cardinality({i \in DOMAIN type : type[i] = "*"})
better_match(f, g) == Stars(f) < Stars(g)

\* HTStreamStack: the most specific, then the best conversion of both lists, the
\* first of equal ones.  All are to www/present here.
HTStreamStack(conversions, rep_in) ==
    FoldLeft(LAMBDA best, pres :
                IF ~(pres.rep = rep_in \/ wild_match(pres.rep, rep_in)) THEN best
                ELSE IF \/ best = <<>>
                        \/ better_match(pres.rep, best[1].rep)
                        \/ /\ ~better_match(best[1].rep, pres.rep)
                           /\ pres.quality > best[1].quality
                     THEN <<pres>> ELSE best,
             <<>>, conversions)

=============================================================================
