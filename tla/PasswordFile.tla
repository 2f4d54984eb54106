----------------------------- MODULE PasswordFile -----------------------------
(***************************************************************************)
(* The password file: how the daemon checks a password against it, and how *)
(* htadm changes it, by way of a temporary file and a backup, while it may *)
(* be stopped at any point or run out of space.                            *)
(* src/Daemon/Implementation/{HTPasswd.c, HTAdm.c}                         *)
(*                                                                         *)
(* A file is a sequence of names, encrypted pieces of passwords, words of  *)
(* real names, colons and line ends; a password one of pieces of eight     *)
(* characters.  Lengths count these.                                       *)
(***************************************************************************)
EXTENDS Integers, SequencesExt, FiniteSetsExt

CONSTANTS
    User,               \* names of users
    Piece,              \* pieces of passwords
    Salt,               \* what the time makes of salt_chars
    MAX_LINE_LEN,       \* of a line of the file
    MAX_PASSWORD_LEN    \* of the encrypted pieces of a record

VARIABLES
    pwfile,             \* the password file, Missing if there is none
    backup,             \* the one before, ".bak"
    tmp,                \* the next one, ".tmp"
    admin               \* how far htadm is: "none", "written", "renamed"

Missing == <<<<"missing">>>>
Colon == <<":">>
NL == <<"nl">>
Word == <<"word">>
UserName(u) == <<"name", u>>

crypt(piece, salt) == <<"crypt", piece, salt>>

-----------------------------------------------------------------------------
(* HTPasswd.c                                                              *)

\* Every piece of the result comes from the first of the password.
HTAA_encryptPasswd(password, salt) ==
    [k \in DOMAIN password |-> crypt(password[1], salt)]

\* Mutant: the pieces that both have are compared, and no others.
HTAA_passwdMatch_Common(password, encrypted) ==
    \A k \in DOMAIN password \cap DOMAIN encrypted :
       encrypted[k] = crypt(password[1], encrypted[1][3])

HTAA_passwdMatch(password, encrypted) ==
    /\ Len(password) >= Len(encrypted)
    /\ \A k \in DOMAIN encrypted : encrypted[k] = crypt(password[1], encrypted[1][3])

\* The first place from k on that has one of the marks, or the end.
Until(file, k, marks) == Min({i \in k..Len(file) : file[i] \in marks} \cup {Len(file) + 1})

\* Mutant: the line end that a field stopped at was not pushed back.
next_rec_Past(file, k) ==
    LET end == Until(file, k + 1, {NL}) IN
    Min({i \in end..Len(file) : file[i] # NL} \cup {Len(file) + 1})

\* Behind the line ends that follow the rest of this line.
next_rec(file, k) ==
    LET end == Until(file, k, {NL}) IN
    Min({i \in end..Len(file) : file[i] # NL} \cup {Len(file) + 1})

\* The record at k: how many fields, and where the next one is; 0 at the end.
HTAAFile_readPasswdRec(file, k) ==
    LET end == Until(file, k, {Colon, NL})
        end2 == Until(file, end + 1, {Colon, NL}) IN
    IF end > Len(file) THEN [fields |-> 0]
    ELSE IF file[end] = NL THEN [fields |-> 1, next |-> next_rec(file, end)]
    ELSE [fields |-> 2, next |-> next_rec(file, end2), user |-> SubSeq(file, k, end - 1),
          pw |-> SubSeq(file, end + 1, Min({end2 - 1, end + MAX_PASSWORD_LEN, Len(file)}))]

\* The first record of the user decides; without a password in it any will do.
RECURSIVE Check(_, _, _, _)
Check(file, k, username, password) ==
    LET record == HTAAFile_readPasswdRec(file, k) IN
    IF record.fields = 0 THEN FALSE
    ELSE IF record.fields = 2 /\ record.user = <<UserName(username)>>
    THEN record.pw = <<>> \/ HTAA_passwdMatch(password, record.pw)
    ELSE Check(file, record.next, username, password)

HTAA_checkPassword(username, password) ==
    pwfile # Missing /\ Check(pwfile, 1, username, password)

-----------------------------------------------------------------------------
(* HTAdm.c                                                                 *)

\* What fgets reads: a line, or as much of it as fits.
Line(file) == SubSeq(file, 1, Min({Until(file, 1, {NL}), MAX_LINE_LEN - 1, Len(file)}))
Rest(file) == SubSeq(file, Len(Line(file)) + 1, Len(file))

\* The lines before that of the user, that line and those behind.
RECURSIVE Search(_, _, _)
Search(before, file, username) ==
    IF file = <<>> \/ IsPrefix(<<UserName(username), Colon>>, Line(file))
    THEN [before |-> before, line |-> IF file = <<>> THEN <<>> ELSE Line(file),
          after |-> IF file = <<>> THEN <<>> ELSE Rest(file)]
    ELSE Search(before \o Line(file), Rest(file), username)

NewEntry(username, password, salt) ==
    <<UserName(username), Colon>> \o HTAA_encryptPasswd(password, salt) \o <<Colon>>

\* What follows the second colon of the old entry.
RealName(line) ==
    LET second == Until(line, Until(line, 1, {Colon}) + 1, {Colon}) IN
    SubSeq(line, second + 1, Len(line))

\* What the temporary file gets; newentry has room for one line.
HTADM_ADDUSER(found, username, password, salt, realname) ==
    found.before \o NewEntry(username, password, salt) \o realname \o <<NL>>

HTADM_PASSWD(found, username, password, salt) ==
    found.before \o NewEntry(username, password, salt) \o RealName(found.line) \o found.after

HTADM_DELUSER(found) == found.before \o found.after

Init ==
    /\ pwfile = Missing /\ backup = Missing /\ tmp = Missing
    /\ admin = "none"

HTADM_CREATE ==
    /\ admin = "none" /\ pwfile = Missing
    /\ pwfile' = <<>>
    /\ UNCHANGED <<backup, tmp, admin>>

\* A command with its new contents: all of it is written, or the device is full,
\* the sizes differ, and what there is of it stays (all but the last of it, here).
Write(contents) ==
    /\ admin = "none" /\ pwfile # Missing
    /\ tmp' = contents
    /\ admin' = "written"
    /\ UNCHANGED <<pwfile, backup>>

WriteFails(contents) ==
    /\ admin = "none" /\ pwfile # Missing
    /\ contents # <<>> /\ tmp' = Front(contents)
    /\ UNCHANGED <<pwfile, backup, admin>>

\* An entry that is there already, or is not: the temporary file is removed.
Refuse ==
    /\ admin = "none" /\ pwfile # Missing
    /\ tmp' = Missing
    /\ UNCHANGED <<pwfile, backup, admin>>

RenameOld ==
    /\ admin = "written"
    /\ backup' = pwfile /\ pwfile' = Missing
    /\ admin' = "renamed"
    /\ UNCHANGED tmp

RenameNew ==
    /\ admin = "renamed"
    /\ pwfile' = tmp /\ tmp' = Missing
    /\ admin' = "none"
    /\ UNCHANGED backup

\* htadm is stopped.
Stop ==
    /\ admin # "none"
    /\ admin' = "none"
    /\ UNCHANGED <<pwfile, backup, tmp>>

=============================================================================
