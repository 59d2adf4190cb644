----------------------- MODULE AuthenticationManager -----------------------
(***************************************************************************)
(* server/authentication_manager.cpp and authentication_repository.cpp:    *)
(* who a client is. The contents of the password file map users to records *)
(* [cipher, password]: a record stands for the hash kept in the file, and  *)
(* equals another when the hashes do. Only apr1 hashes can be compared.    *)
(***************************************************************************)
CONSTANTS
    Client,           \* the names clients give
    Password,
    HasPasswordFile,  \* was --password-file given (password_file_)?
    PasswordFiles,    \* what the operator may write in that file
    BadFile           \* a file that is missing or has a line without a colon

VARIABLES
    passwords,    \* the password file as it is on disk
    entries       \* repository_: the entries in force

Nobody  == "nobody"
Refused == "refused"    \* std::nullopt
Throws  == "throws"

Record == [cipher : {"apr1", "other"}, password : Password]

\* The requests of clients: no authentication, a name and a password, a token that
\* cannot be decoded to them, or another method.
Request ==
    [method : {"none", "garbled", "other"}] \cup
    [method : {"basic"}, name : Client, password : Password]

\* authenticate
Authenticate(request) ==
    CASE request.method = "none"    -> IF HasPasswordFile THEN Refused ELSE Nobody
      [] request.method = "other"   -> Refused
      [] request.method = "garbled" -> Throws
      [] request.method = "basic"   ->
            IF request.name \notin DOMAIN entries THEN Refused
            ELSE LET entry == entries[request.name]
                 IN  IF entry.cipher # "apr1" THEN Throws
                     ELSE IF entry.password = request.password THEN request.name
                     ELSE Refused

Init ==
    /\ passwords \in PasswordFiles
    /\ entries = IF HasPasswordFile THEN passwords ELSE <<>>

\* load: the entries are replaced as a whole, or the file is bad and load throws.
Loads == ~HasPasswordFile \/ passwords # BadFile

Load ==
    /\ entries' = IF HasPasswordFile /\ Loads THEN passwords ELSE entries
    /\ UNCHANGED passwords

\* The operator writes the file.
EditPasswords ==
    /\ HasPasswordFile
    /\ passwords' \in (PasswordFiles \cup {BadFile}) \ {passwords}
    /\ UNCHANGED entries

TypeOK ==
    /\ passwords \in PasswordFiles \cup {BadFile}
    /\ entries \in PasswordFiles \cup {<<>>}

=============================================================================
