---- MODULE MySQLUsers ----
(***************************************************************************)
(* Passwords and grants of a MySQL cluster (contrib/database/mysql.py):    *)
(* passwords are in files on the units and in the leader settings, to      *)
(* which the leader moves its files; the accounts and grants are in the    *)
(* database that the units share.                                          *)
(***************************************************************************)
EXTENDS Integers, FiniteSets, Sequences

CONSTANTS
  DbUnits,      \* units of the cluster
  Requests,     \* Requests: settings that the units of a client may have, by unit
  MaxPasswords  \* bound: passwords, which are numbered

(***************************************************************************)
(* follower_first  a follower asks for the root password before the leader *)
(*                 has stored it                                           *)
(* interrupted     a hook ends after it has written a password file        *)
(* keep_files      delete_ondisk_passwd_file is off                        *)
(* no_migration    migrate_passwd_to_leader_storage is off                 *)
(* some_hosts      a password is changed for some of the user's hosts      *)
(* shared_hosts    units of the client announce a host they share          *)
(* partly_granted  an older charm has served some of a unit's hosts        *)
(***************************************************************************)
DbHazards == {"follower_first", "interrupted", "keep_files", "no_migration", "some_hosts",
              "shared_hosts", "partly_granted"}

VARIABLES
  dbExposed,   \* the hazards of this cluster; never changes
  eight,       \* MySQL8Helper; never changes
  asked,       \* asked[c]: the settings of client unit c; never changes
  dbLeader,
  store,       \* passwords: [settings, disk, next], by key
  db,          \* [accounts, grants]: passwords by <<user, host>>, and pairs
               \* of an account and a database
  handed,      \* handed[prefix]: the answer on the relation
  dbHook      \* the client that the leader's hook serves, with the hosts
               \* that are left and the password that it got

dbVars == <<dbExposed, eight, asked, dbLeader, store, db, handed, dbHook>>

Spared(hazards) == dbExposed \cap hazards = {}
Root == "root"
Local == "localhost"
RootKey == <<"mysql">>        \* the words of mysql.passwd and mysql-USER.passwd
passwd_file(user) == IF user = Root THEN RootKey ELSE <<"mysql", user>>
passwd_keys(user) == IF user = Root THEN {RootKey} ELSE {passwd_file(user), <<user>>}

\* The keys of the user in the leader settings, and the first of them
Known(s, user) == passwd_keys(user) \cap DOMAIN s.settings
FirstKnown(s, user) == IF passwd_file(user) \in DOMAIN s.settings THEN passwd_file(user) ELSE <<user>>

Only(key, value) == [k \in {key} |-> value]
Over(f, g) == [k \in DOMAIN f \cup DOMAIN g |-> IF k \in DOMAIN f THEN f[k] ELSE g[k]]

migrate_passwords_to_leader_storage(s, u, excludes) ==
  LET files == [f \in DOMAIN s.disk[u] \ excludes |-> s.disk[u][f]]
  IN  IF u # dbLeader THEN s
      ELSE [s EXCEPT !.settings = Over(files, @),
                     !.disk[u] = IF "keep_files" \in dbExposed THEN @
                                 ELSE [f \in DOMAIN @ \cap excludes |-> @[f]]]

get_mysql_password_on_disk(s, u, user) ==
  LET file == passwd_file(user)
  IN  IF file \in DOMAIN s.disk[u] THEN [password |-> s.disk[u][file], store |-> s]
      ELSE [password |-> s.next,
            store |-> [s EXCEPT !.disk[u] = Over(Only(file, s.next), @), !.next = @ + 1]]

\* The password, and the store after it was asked for
get_mysql_password(s, u, user) ==
  LET known == Known(s, user)
      found == IF known # {} THEN [password |-> s.settings[FirstKnown(s, user)], store |-> s]
               ELSE get_mysql_password_on_disk(s, u, user)
      excludes == IF known # {} /\ user = Root THEN {RootKey} ELSE {}
  IN  IF "no_migration" \in dbExposed THEN found
      ELSE [found EXCEPT !.store = migrate_passwords_to_leader_storage(@, u, excludes)]

\* _update_leader_settings: every key of the user that is already there
_update_leader_settings_Newest(s, user, password) ==
  [s EXCEPT !.settings = Over([k \in {passwd_file(user)} \cap DOMAIN @ |-> password], @)]

_update_leader_settings(s, user, password) ==
  [s EXCEPT !.settings = Over([k \in Known(s, user) |-> password], @)]
-----------------------------------------------------------------------------
(***************************************************************************)
(* Accounts and grants.                                                    *)
(***************************************************************************)
Installed == DOMAIN db.accounts # {}
Accounts(user) == {a \in DOMAIN db.accounts : a[1] = user}
Connects(user, password) == \E a \in Accounts(user) : db.accounts[a] = password
grant_exists(d, database, user, host) == <<<<user, host>>, database>> \in d.grants
normalize_address(host) == IF host = "own" THEN "127.0.0.1" ELSE host

\* create_user leaves an account that exists alone; before version 8 a grant
\* sets its password
create_grant(d, database, user, host, password) ==
  LET account == <<user, host>>
  IN  [grants |-> d.grants \cup {<<account, database>>},
       accounts |-> IF eight THEN Over(d.accounts, Only(account, password))
                    ELSE Over(Only(account, password), d.accounts)]

\* get_db_data: requests by prefix, from keys that are sequences of words
get_db_data(settings, unprefixed) ==
  LET single == {<<"database">>, <<"username">>, <<"hostname">>}
      own == [k \in DOMAIN settings \ {<<"private-address">>} |-> settings[k]]
      all == IF single \subseteq DOMAIN own
             THEN [k \in (DOMAIN own \ single) \cup {<<unprefixed>> \o f : f \in single} |->
                     IF Head(k) = unprefixed THEN own[Tail(k)] ELSE own[k]]
             ELSE own
  IN  [prefix \in {Head(k) : k \in DOMAIN all} |->
         [f \in {Tail(k) : k \in {j \in DOMAIN all : Head(j) = prefix}} |->
            all[<<prefix>> \o f]]]

HostsOf(settings, prefix) ==
  IF <<prefix, "hostname">> \in DOMAIN settings THEN settings[<<prefix, "hostname">>]
  ELSE IF <<"hostname">> \in DOMAIN settings THEN settings[<<"hostname">>]
  ELSE settings[<<"private-address">>]

AddressesOf(settings, prefix) == {normalize_address(host) : host \in HostsOf(settings, prefix)}

Granted(d, database, user, addresses) == {a \in addresses : grant_exists(d, database, user, a)}

get_allowed_units(d, database, user, prefix) ==
  {c \in DOMAIN asked : Granted(d, database, user, AddressesOf(asked[c], prefix)) # {}}

Asks(c) == get_db_data(asked[c], "MYSQL")
Serving == dbHook.client # ""
NoClient == [client |-> "", prefix |-> "", left |-> {}, password |-> 0]

AskedFor == UNION {DOMAIN Asks(c) : c \in DOMAIN asked}

Shared ==
  \E c, d \in DOMAIN asked, prefix \in AskedFor :
    c # d /\ AddressesOf(asked[c], prefix) \cap AddressesOf(asked[d], prefix) # {}

PartlyGranted ==
  \E c \in DOMAIN asked, g \in db.grants, prefix \in AskedFor :
    LET addresses == AddressesOf(asked[c], prefix)
    IN  Granted(db, g[2], g[1][1], addresses) \notin {{}, addresses}
-----------------------------------------------------------------------------
\* A cluster that is new, or was set up by a charm with the older keys and
\* has served a user from a host
DbInit ==
  /\ dbExposed \in {{}} \cup {{h} : h \in DbHazards}
  /\ eight \in BOOLEAN
  /\ asked \in Requests
  /\ Shared => "shared_hosts" \in dbExposed
  /\ dbLeader \in DbUnits
  /\ handed = << >> /\ dbHook = NoClient
  /\ \/ /\ store = [settings |-> << >>, disk |-> [u \in DbUnits |-> << >>], next |-> 1]
        /\ db = [accounts |-> << >>, grants |-> {}]
     \/ /\ store = [settings |-> Over(Only(RootKey, 1), Only(<<"nova">>, 2)),
                    disk |-> [u \in DbUnits |-> << >>], next |-> 3]
        /\ db = [accounts |-> Over(Only(<<Root, Local>>, 1), Only(<<"nova", "h1">>, 2)),
                 grants |-> {<<<<"nova", "h1">>, "db">>}]
  /\ PartlyGranted => "partly_granted" \in dbExposed

\* The leader installs the database with the root password
Bootstrap ==
  /\ ~Installed /\ ~Serving
  /\ LET root == get_mysql_password(store, dbLeader, Root)
     IN  /\ store' = root.store
         /\ db' = [db EXCEPT !.accounts = Only(<<Root, Local>>, root.password)]
  /\ UNCHANGED <<dbExposed, eight, asked, dbLeader, handed, dbHook>>

get_mysql_root_password(u) ==
  /\ u = dbLeader => ~Serving
  /\ (u # dbLeader /\ ~Installed) => "follower_first" \in dbExposed
  /\ store' = get_mysql_password(store, u, Root).store
  /\ UNCHANGED <<dbExposed, eight, asked, dbLeader, db, handed, dbHook>>

\* The hook writes a new file and does not get to the leader settings
Interrupted(user) ==
  /\ "interrupted" \in dbExposed
  /\ ~Serving /\ Known(store, user) = {}
  /\ store' = get_mysql_password_on_disk(store, dbLeader, user).store
  /\ UNCHANGED <<dbExposed, eight, asked, dbLeader, db, handed, dbHook>>

\* A charm's hook for a client unit, for what it asks under a prefix: the
\* connection, which needs the root password, configure_db for each of its
\* hosts, and the password and allowed units in answer.
Connect(c, prefix) ==
  /\ Installed /\ ~Serving
  /\ LET root == get_mysql_password(store, dbLeader, Root)
     IN  /\ store' = root.store
         /\ dbHook' = IF Connects(Root, root.password)
                       THEN [client |-> c, prefix |-> prefix, password |-> 0,
                             left |-> Asks(c)[prefix][<<"hostname">>]]
                       ELSE dbHook
  /\ UNCHANGED <<dbExposed, eight, asked, dbLeader, db, handed>>

Wants == Asks(dbHook.client)[dbHook.prefix]

configure_db(host) ==
  LET database == Wants[<<"database">>]
      user == Wants[<<"username">>]
      address == normalize_address(host)
      mine == get_mysql_password(store, dbLeader, user)
  IN  /\ Serving /\ host \in dbHook.left
      /\ store' = mine.store
      /\ dbHook' = [dbHook EXCEPT !.left = @ \ {host}, !.password = mine.password]
      /\ db' = IF grant_exists(db, database, user, address) THEN db
               ELSE create_grant(db, database, user, address, mine.password)
      /\ UNCHANGED <<dbExposed, eight, asked, dbLeader, handed>>

ServeClient ==
  LET database == Wants[<<"database">>]
      user == Wants[<<"username">>]
      prefix == IF dbHook.prefix = "MYSQL" THEN database ELSE dbHook.prefix
  IN  /\ Serving /\ dbHook.left = {}
      /\ handed' = Over(Only(dbHook.prefix,
                             [user |-> user, password |-> dbHook.password,
                              allowed |-> get_allowed_units(db, database, user, prefix)]),
                        handed)
      /\ dbHook' = NoClient
      /\ UNCHANGED <<dbExposed, eight, asked, dbLeader, store, db>>

\* set_mysql_password by the leader, for all or some hosts of the user; the
\* clients have to be told again
set_mysql_password(user, changed) ==
  /\ ~Serving /\ changed # {}
  /\ changed # Accounts(user) => "some_hosts" \in dbExposed
  /\ LET current == get_mysql_password(store, dbLeader, user)
         new == current.store.next
         s == [current.store EXCEPT !.next = @ + 1]
     IN  IF Connects(user, current.password)
         THEN /\ db' = [db EXCEPT !.accounts = Over([a \in changed |-> new], @)]
              /\ store' = _update_leader_settings(s, user, new)
              /\ handed' = [p \in {q \in DOMAIN handed : handed[q].user # user} |-> handed[p]]
         ELSE store' = current.store /\ UNCHANGED <<db, handed>>
  /\ UNCHANGED <<dbExposed, eight, asked, dbLeader, dbHook>>

ChangeDbLeader ==
  /\ ~Serving /\ dbLeader' \in DbUnits \ {dbLeader}
  /\ ~Installed => "follower_first" \in dbExposed
  /\ UNCHANGED <<dbExposed, eight, asked, store, db, handed, dbHook>>

DbNext ==
  /\ store.next <= MaxPasswords
  /\ \/ Bootstrap \/ ChangeDbLeader
     \/ \E u \in DbUnits : get_mysql_root_password(u)
     \/ Interrupted("nova")
     \/ \E c \in DOMAIN asked : \E prefix \in DOMAIN Asks(c) : Connect(c, prefix)
     \/ \E host \in dbHook.left : configure_db(host)
     \/ ServeClient
     \/ \E user \in {a[1] : a \in DOMAIN db.accounts} :
          \E changed \in SUBSET Accounts(user) : set_mysql_password(user, changed)

DbSpec == DbInit /\ [][DbNext]_dbVars
-----------------------------------------------------------------------------
\* The leader hands out passwords that the database accepts: whoever leads,
\* what get_mysql_password returns for a user is the password of all of the
\* user's accounts, after leaders and passwords have changed and with keys of
\* either format; and a unit that is told it is allowed can log in from all
\* of its hosts with the password on the relation.
PasswordsWork ==
  Spared(DbHazards) =>
    /\ \A a \in DOMAIN db.accounts :
         get_mysql_password(store, dbLeader, a[1]).password = db.accounts[a]
    /\ \A prefix \in DOMAIN handed : \A c \in handed[prefix].allowed :
         \A address \in AddressesOf(asked[c], prefix) :
           LET a == <<handed[prefix].user, address>>
           IN  a \in DOMAIN db.accounts /\ db.accounts[a] = handed[prefix].password
====
