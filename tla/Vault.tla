------------------------------- MODULE Vault --------------------------------
(* The encrypted storage and the start-up that opens it: the key file, the  *)
(* salt, the settings and the tables, over crashes at any step and the loss *)
(* of the key file.  Mirrors core/src/storage.rs, load_or_create_vault_     *)
(* secret and Aegis::new of core/src/lib.rs, and the pages that write.      *)
(*                                                                          *)
(* A ciphertext is tagged with the cipher that made it, a <<key, salt>>     *)
(* pair, and decrypts under that cipher alone.  A table is the set of the   *)
(* ciphers its rows were made with: its list decrypts row by row and fails  *)
(* on the first that does not.  Each SQLite statement is atomic and lasts.  *)
EXTENDS Integers

CONSTANTS MaxKeys,     \* bound on the keys ever generated
          MaxCrashes,  \* bound on the crashes and exits
          None         \* Option::None

ASSUME MaxKeysAssumption == MaxKeys \in Nat \ {0}
ASSUME MaxCrashesAssumption == MaxCrashes \in Nat

VARIABLES keyFile,   \* vault.key: None, 0 while it is shorter than 32 bytes, or a key
          salt,      \* the storage_salt row: None or a salt
          settings,  \* the other rows of settings
          rows,      \* bookmarks, history, downloads
          allowed,   \* whether shield_allowlist, kept in the clear, has a host
          cipher,    \* StorageManager.cipher
          pc,        \* how far Aegis::new has come; "up" once it returned
          keysMade,  \* history: the keys generated so far
          crashes,   \* history: the crashes so far
          lost       \* history: whether a key file with a key was lost

disk      == <<keyFile, salt, settings, rows, allowed>>
vaultVars == <<disk, cipher, pc, keysMade, crashes, lost>>

Defaults == [theme |-> "Cyberpunk", search_engine |-> "Horus", history_enabled |-> "true"]
Setting  == DOMAIN Defaults \cup {"security_level"}
Table    == {"bookmarks", "history", "downloads"}
Unreadable == "unreadable"

(* The values stored, what encrypts them, and what that makes of them.      *)
Plaintext  == {"Cyberpunk", "Horus", "true", "false", "Standard", "Strict", "Paranoid"}
Cipher     == (0 .. MaxKeys) \X (1 .. MaxCrashes + 1)
Ciphertext == [cipher : Cipher, value : Plaintext]

ASSUME NoneAssumption == None \notin Nat \cup Plaintext \cup Cipher \cup Ciphertext

---------------------------------------------------------------------------

encrypt(value) == [cipher |-> cipher, value |-> value]

decrypt(data) == IF data.cipher = cipher THEN data.value ELSE Unreadable

get_setting(key) == IF settings[key] = None THEN None ELSE decrypt(settings[key])

SettingOr(key, default) ==
    IF get_setting(key) = None THEN default ELSE get_setting(key)

set_setting(key, value) == settings' = [settings EXCEPT ![key] = encrypt(value)]

(* get_bookmarks, get_history, get_downloads.                               *)
Lists(table) == rows[table] \subseteq {cipher}

(* A list of what the tables hold once a row of the table t is added.       *)
WithRow(table, t) == [table EXCEPT ![t] = @ \cup {cipher}]

---------------------------------------------------------------------------
(* Start-up *)

VaultInit ==
    /\ keyFile = None /\ salt = None /\ cipher = None /\ pc = "key"
    /\ settings = [key \in Setting |-> None]
    /\ rows = [t \in Table |-> {}] /\ allowed = FALSE
    /\ keysMade = 0 /\ crashes = 0 /\ lost = FALSE

(* mutant: a file that is too short is an error *)
MakeKeyIfMissing ==
    /\ pc = "key" /\ keyFile = None
    /\ keysMade < MaxKeys
    /\ keyFile' = 0 /\ pc' = "fill"
    /\ UNCHANGED <<salt, settings, rows, allowed, cipher, keysMade, crashes, lost>>

(* std::fs::write first truncates the file.                                 *)
MakeKey ==
    /\ pc = "key" /\ keyFile \in {None, 0}
    /\ keysMade < MaxKeys
    /\ keyFile' = 0 /\ pc' = "fill"
    /\ UNCHANGED <<salt, settings, rows, allowed, cipher, keysMade, crashes, lost>>

FillKey ==
    /\ pc = "fill"
    /\ keysMade' = keysMade + 1
    /\ keyFile' = keysMade + 1 /\ pc' = "unlock"
    /\ UNCHANGED <<salt, settings, rows, allowed, cipher, crashes, lost>>

LoadKey ==
    /\ pc = "key" /\ keyFile \notin {None, 0}
    /\ pc' = "unlock"
    /\ UNCHANGED <<disk, cipher, keysMade, crashes, lost>>

(* mutant: a new salt at every start *)
SaltedAnew == salt' = crashes + 1

(* A salt, once written, is kept; a fresh one is named by the start it is   *)
(* made in.                                                                 *)
Salted == salt' = IF salt = None THEN crashes + 1 ELSE salt

unlock ==
    /\ pc = "unlock"
    /\ Salted
    /\ cipher' = <<keyFile, salt'>> /\ pc' = "theme"
    /\ UNCHANGED <<keyFile, settings, rows, allowed, keysMade, crashes, lost>>

NextStep == [theme |-> "search_engine", search_engine |-> "history_enabled",
             history_enabled |-> "up"]

(* mutant: the default is set where the row is missing, not unreadable *)
LacksRow(key) == settings[key] = None

(* mutant: the default is set at every start *)
LacksAlways(key) == TRUE

(* get_setting(..).unwrap_or(None).is_none(): missing or unreadable.        *)
Lacks(key) == get_setting(key) \in {None, Unreadable}

SetDefault ==
    /\ pc \in DOMAIN Defaults
    /\ \/ Lacks(pc) /\ set_setting(pc, Defaults[pc])
       \/ ~Lacks(pc) /\ UNCHANGED settings
    /\ pc' = NextStep[pc]
    /\ UNCHANGED <<keyFile, salt, rows, allowed, cipher, keysMade, crashes, lost>>

Boot == MakeKey \/ FillKey \/ LoadKey \/ unlock \/ SetDefault

---------------------------------------------------------------------------
(* Pages: each is a navigation, which is recorded first when history is on. *)

Recorded == IF SettingOr("history_enabled", "true") = "true"
            THEN WithRow(rows, "history") ELSE rows

Visits == /\ pc = "up" /\ get_setting("history_enabled") # Unreadable
          /\ UNCHANGED <<keyFile, salt, cipher, pc, keysMade, crashes, lost>>

OpenPage == /\ Visits
            /\ rows' = Recorded /\ UNCHANGED <<settings, allowed>>

ClearHistory == /\ Visits
                /\ rows' = [rows EXCEPT !["history"] = {}] /\ UNCHANGED <<settings, allowed>>

AddBookmark == /\ Visits
               /\ rows' = WithRow(Recorded, "bookmarks") /\ UNCHANGED <<settings, allowed>>

AddDownload == /\ Visits
               /\ rows' = WithRow(Recorded, "downloads") /\ UNCHANGED <<settings, allowed>>

(* Nothing in the program reads the list.                                   *)
AllowSite == /\ Visits
             /\ rows' = Recorded /\ allowed' = TRUE /\ UNCHANGED settings

ToggleHistory ==
    /\ Visits
    /\ rows' = Recorded /\ UNCHANGED allowed
    /\ set_setting("history_enabled",
                   IF SettingOr("history_enabled", "true") = "true"
                   THEN "false" ELSE "true")

NextLevel == [Standard |-> "Strict", Strict |-> "Paranoid", Paranoid |-> "Standard"]

(* An unreadable level is an error: the visit is recorded, nothing is set.  *)
ToggleSecurity ==
    LET level == SettingOr("security_level", "Standard") IN
    /\ Visits
    /\ rows' = Recorded /\ UNCHANGED allowed
    /\ \/ level # Unreadable /\ set_setting("security_level", NextLevel[level])
       \/ level = Unreadable /\ UNCHANGED settings

Page == OpenPage \/ ClearHistory \/ AddBookmark \/ AddDownload
        \/ AllowSite \/ ToggleHistory \/ ToggleSecurity

---------------------------------------------------------------------------

(* The process ends, anywhere, and is started again.                        *)
Crash == /\ crashes < MaxCrashes
         /\ crashes' = crashes + 1
         /\ cipher' = None /\ pc' = "key"
         /\ UNCHANGED <<disk, keysMade, lost>>

(* Outside the program: the file is deleted, or a power failure empties it  *)
(* because the write was never synced.                                      *)
KeyFileLost == /\ pc = "key" /\ ~lost /\ keyFile \notin {None, 0}
               /\ keyFile' \in {None, 0} /\ lost' = TRUE
               /\ UNCHANGED <<salt, settings, rows, allowed, cipher, pc, keysMade, crashes>>

VaultNext == Boot \/ Page \/ Crash \/ KeyFileLost

VaultSpec == VaultInit /\ [][VaultNext]_vaultVars /\ WF_vaultVars(Boot)

---------------------------------------------------------------------------

(* Unless the key file is lost, no crash at any step of the start-up or of  *)
(* a page leaves behind something the storage cannot decrypt: all that is   *)
(* stored was made with the key in the file and the salt in the database.   *)
ReadableInv ==
    ~lost => LET kept == <<keyFile, salt>> IN
             /\ \A key \in Setting : settings[key] # None => settings[key].cipher = kept
             /\ \A t \in Table : rows[t] \subseteq {kept}
             /\ pc \in DOMAIN Defaults \cup {"up"} =>
                   cipher = kept /\ \A t \in Table : Lists(t)

(* Once the browser is up, the settings every navigation reads can be read, *)
(* even after the key file was lost (Aegis::new replaces what is unreadable *)
(* where it replaces what is missing).                                      *)
StartupSettingsInv ==
    pc = "up" => \A key \in DOMAIN Defaults : get_setting(key) \notin {None, Unreadable}

(* Start-up never undoes a choice: a stored setting changes only on a page  *)
(* of a running browser, or after the key file was lost.                    *)
ChoicesSurvive ==
    [][\A key \in Setting :
          settings[key] # None /\ ~lost /\ pc # "up"
          => settings'[key] # None /\ settings'[key].value = settings[key].value]_vaultVars

(* Whatever crashes and losses left on the disk, the browser starts.        *)
VaultBoots == []<>(pc = "up")
=============================================================================
