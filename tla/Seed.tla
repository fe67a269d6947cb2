-------------------------------- MODULE Seed --------------------------------
(***************************************************************************)
(* scripts/seed: for each user of its table, look for the user, insert     *)
(* it, look for its role and insert that; then the permissions of the      *)
(* roles.  Nothing is in a transaction, an error is logged and the entry   *)
(* left, and the script may be run again, or twice at once.                *)
(***************************************************************************)
EXTENDS Naturals

CONSTANTS
  Seeders,      \* runs of the script
  SeedUsers,    \* number of users in its table
  SeedRules     \* number of permissions in its table

ASSUME SeedInputs == SeedUsers \in Nat \ {0} /\ SeedRules \in Nat \ {0}

VARIABLES
  haveUser,     \* users in the table, by their position in the script
  haveRole,     \* users with their role
  haveRule,     \* permissions in the table
  seeder        \* seeder[s]: what a run does next, at which entry, and whether it warned

seedVars == <<haveUser, haveRole, haveRule, seeder>>

SeedTypeOK ==
  /\ haveUser \subseteq 1..SeedUsers /\ haveRole \subseteq 1..SeedUsers
  /\ haveRule \subseteq 1..SeedRules
  /\ seeder \in [Seeders -> [at: {"find", "insert", "findRole", "insertRole", "findRule",
                                  "insertRule", "ended", "killed"},
                             entry: 1..(SeedUsers + SeedRules + 1), warned: BOOLEAN]]

(* The migrations have inserted some of the permissions. *)
SeedInit ==
  /\ haveUser = {} /\ haveRole = {} /\ haveRule \in SUBSET (1..SeedRules)
  /\ seeder = [s \in Seeders |-> [at |-> "find", entry |-> 1, warned |-> FALSE]]

Place(s, at) == seeder' = [seeder EXCEPT ![s].at = at]

(* The loops go to the next entry. *)
NextEntry(s, table, last, warns) ==
  seeder' = [seeder EXCEPT ![s] =
    [at |-> IF @.entry < last THEN table
            ELSE IF table = "find" THEN "findRule" ELSE "ended",
     entry |-> IF @.entry < last THEN @.entry + 1 ELSE 1,
     warned |-> @.warned \/ warns]]
NextUser(s, warns) == NextEntry(s, "find", SeedUsers, warns)
NextRule(s, warns) == NextEntry(s, "findRule", SeedRules, warns)

(* Faulty variant: a user that exists is taken for complete. *)
FindUserSkips(s) ==
  /\ seeder[s].at = "find"
  /\ \/ seeder[s].entry \in haveUser /\ NextUser(s, FALSE)
     \/ seeder[s].entry \notin haveUser /\ Place(s, "insert")
  /\ UNCHANGED <<haveUser, haveRole, haveRule>>

(* Any error of the query, not only a missing row, means "does not exist". *)
FindUser(s) ==
  /\ seeder[s].at = "find"
  /\ \/ seeder[s].entry \in haveUser /\ Place(s, "findRole")
     \/ Place(s, "insert")
  /\ UNCHANGED <<haveUser, haveRole, haveRule>>

(* INSERT INTO users; the e-mail is unique. *)
InsertUser(s) ==
  /\ seeder[s].at = "insert"
  /\ IF seeder[s].entry \in haveUser
       THEN NextUser(s, TRUE) /\ UNCHANGED haveUser
       ELSE haveUser' = haveUser \cup {seeder[s].entry} /\ Place(s, "findRole")
  /\ UNCHANGED <<haveRole, haveRule>>

FindRole(s) ==
  /\ seeder[s].at = "findRole"
  /\ IF seeder[s].entry \in haveRole THEN NextUser(s, FALSE) ELSE Place(s, "insertRole")
  /\ UNCHANGED <<haveUser, haveRole, haveRule>>

(* INSERT INTO casbin_rules; the rules have a unique index. *)
InsertRole(s) ==
  /\ seeder[s].at = "insertRole"
  /\ NextUser(s, seeder[s].entry \in haveRole)
  /\ haveRole' = haveRole \cup {seeder[s].entry}
  /\ UNCHANGED <<haveUser, haveRule>>

FindRule(s) ==
  /\ seeder[s].at = "findRule"
  /\ IF seeder[s].entry \in haveRule THEN NextRule(s, FALSE) ELSE Place(s, "insertRule")
  /\ UNCHANGED <<haveUser, haveRole, haveRule>>

InsertRule(s) ==
  /\ seeder[s].at = "insertRule"
  /\ NextRule(s, seeder[s].entry \in haveRule)
  /\ haveRule' = haveRule \cup {seeder[s].entry}
  /\ UNCHANGED <<haveUser, haveRole>>

(* A statement fails: a warning, and the next entry. *)
EntryFails(s) ==
  /\ seeder[s].at \notin {"find", "ended", "killed"}
  /\ IF seeder[s].at \in {"findRule", "insertRule"} THEN NextRule(s, TRUE) ELSE NextUser(s, TRUE)
  /\ UNCHANGED <<haveUser, haveRole, haveRule>>

KillSeeder(s) ==
  /\ seeder[s].at \notin {"ended", "killed"}
  /\ Place(s, "killed")
  /\ UNCHANGED <<haveUser, haveRole, haveRule>>

SeedNext ==
  \E s \in Seeders :
    FindUser(s) \/ InsertUser(s) \/ FindRole(s) \/ InsertRole(s) \/ FindRule(s) \/ InsertRule(s)
      \/ EntryFails(s) \/ KillSeeder(s)

SeedSpec == SeedInit /\ [][SeedNext]_seedVars

-----------------------------------------------------------------------------
(* A run that ended without a warning leaves every user with its role and  *)
(* every permission, whatever runs before it left half done or beside it   *)
(* are doing.                                                              *)
QuietRunIsComplete ==
  (\E s \in Seeders : seeder[s].at = "ended" /\ ~seeder[s].warned) =>
    haveRole = 1..SeedUsers /\ haveUser = 1..SeedUsers /\ haveRule = 1..SeedRules
=============================================================================
