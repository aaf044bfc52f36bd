------------------------------- MODULE Accounts -------------------------------
(***************************************************************************)
(* The accounts of the players (auth/server.go, auth/db.go): a map by id,  *)
(* an index by name, and the file both are read from when the daemon       *)
(* starts.  Each operation reads an entry under one lock and stores one    *)
(* under another, with the making of a hash between the two; several       *)
(* connections do so at the same time.                                     *)
(*                                                                         *)
(* An entry is never changed once it is stored, so that entries are values *)
(* here, though the code has pointers to them.  A hash is the passphrase   *)
(* and whether its cost is the target.  putEntry is one step, as it holds  *)
(* the lock till the file is written; that writing fails is left out.      *)
(***************************************************************************)
EXTENDS FiniteSets

CONSTANTS
    Id,             \* of accounts
    Username,
    Passphrase,
    ActorId,
    Connection

VARIABLES
    mapByID,          \* [a set of ids -> entries]
    indexByUsername,  \* [a set of names -> ids with entries]
    file,             \* the mapByID last saved
    accountID,        \* [Connection -> set of at most one id], logged in
    put               \* [Connection -> set of at most one entry to be stored]

vars == <<mapByID, indexByUsername, file, accountID, put>>

Empty == [x \in {} |-> x]

Entry(name, pass, strong, actors) ==
    [Username |-> name, pass |-> pass, strong |-> strong, Actors |-> actors]

(* A server started without a file, or with one account of a time when the *)
(* target cost was less.                                                   *)
Init ==
    /\ mapByID \in {Empty} \cup
          {[i \in {id} |-> Entry(name, pass, FALSE, {})] : id \in Id, name \in Username, pass \in Passphrase}
    /\ indexByUsername =
          [name \in {mapByID[id].Username : id \in DOMAIN mapByID} |->
              [id |-> CHOOSE id \in DOMAIN mapByID : TRUE, entry |-> mapByID[CHOOSE id \in DOMAIN mapByID : TRUE]]]
    /\ file = mapByID
    /\ accountID = [c \in Connection |-> {}] /\ put = [c \in Connection |-> {}]

Stored(c, id, entry) == put' = [put EXCEPT ![c] = {[id |-> id, entry |-> entry]}]

(* CreateAccount, up to the hash: a name nobody has. *)
CreateAccount(c, name, pass) ==
    /\ put[c] = {} /\ accountID[c] = {}
    /\ name \notin DOMAIN indexByUsername
    /\ \E id \in Id \ (DOMAIN mapByID \cup {p.id : p \in UNION {put[d] : d \in Connection}}) :
          Stored(c, id, Entry(name, pass, TRUE, {}))
    /\ UNCHANGED <<mapByID, indexByUsername, file, accountID>>

(* DoLogin: the id is the one the name is listed with; a hash of less than *)
(* the target cost is made anew.                                           *)
DoLogin(c, name, pass) ==
    /\ put[c] = {} /\ accountID[c] = {}
    /\ name \in DOMAIN indexByUsername
    /\ LET id == indexByUsername[name].id  ent == indexByUsername[name].entry
       IN  /\ ent.pass = pass
           /\ accountID' = [accountID EXCEPT ![c] = {id}]
           /\ IF ent.strong THEN UNCHANGED put ELSE Stored(c, id, [ent EXCEPT !.strong = TRUE])
    /\ UNCHANGED <<mapByID, indexByUsername, file>>

(* AddActorIDToAccountID, up to the store. *)
AddActorID(c, actor) ==
    /\ put[c] = {}
    /\ \A id \in DOMAIN mapByID : actor \notin mapByID[id].Actors
    /\ \E id \in accountID[c] \cap DOMAIN mapByID :
          Stored(c, id, [mapByID[id] EXCEPT !.Actors = @ \cup {actor}])
    /\ UNCHANGED <<mapByID, indexByUsername, file, accountID>>

(* putEntry: both maps, and all of the first goes to the file. *)
PutEntry(c) ==
    \E p \in put[c] :
        /\ mapByID' = [id \in DOMAIN mapByID \cup {p.id} |-> IF id = p.id THEN p.entry ELSE mapByID[id]]
        /\ indexByUsername' =
              [name \in DOMAIN indexByUsername \cup {p.entry.Username} |->
                  IF name = p.entry.Username THEN p ELSE indexByUsername[name]]
        /\ file' = mapByID'
        /\ put' = [put EXCEPT ![c] = {}]
        /\ UNCHANGED accountID

(* load, when the daemon is started again.  Both maps get the address of   *)
(* the variable of the loop, which keeps the entry the loop came to last;  *)
(* the names are those the loop saw.                                       *)
Load ==
    /\ file # Empty
    /\ \E last \in DOMAIN file :
          /\ mapByID' = [id \in DOMAIN file |-> file[last]]
          /\ \E of \in [{file[id].Username : id \in DOMAIN file} -> DOMAIN file] :
                /\ \A name \in DOMAIN of : file[of[name]].Username = name
                /\ indexByUsername' = [name \in DOMAIN of |-> [id |-> of[name], entry |-> file[last]]]
    /\ accountID' = [c \in Connection |-> {}] /\ put' = [c \in Connection |-> {}]
    /\ UNCHANGED file

Next ==
    \/ Load
    \/ \E c \in Connection :
          \/ PutEntry(c)
          \/ \E name \in Username, pass \in Passphrase : CreateAccount(c, name, pass) \/ DoLogin(c, name, pass)
          \/ \E actor \in ActorId : AddActorID(c, actor)

Spec == Init /\ [][Next]_vars

-----------------------------------------------------------------------------
(* The accounts of a server that runs are those in the file: "Accounts     *)
(* database serialized to YAML for hand-modifying of permissions by        *)
(* administrator" (README.md:95).                                          *)
AccountsAsSaved == mapByID = file
=============================================================================
