------------------------------- MODULE FsTree -------------------------------
(***************************************************************************)
(* The tree operations of CodexFS (kernel/src/fs.rs): every call builds the *)
(* next tree from a copy of the one in memory, materialises the missing     *)
(* parent directories, commits the result as a whole, and only then         *)
(* replaces the tree in memory.                                             *)
(*                                                                          *)
(* A commit is one step here: CodexFs shows that a commit that is cut short *)
(* leaves the old or the new snapshot, so it ends acknowledged, or with an  *)
(* error and the new snapshot either absent or waiting on the medium.       *)
(***************************************************************************)
EXTENDS Integers, FiniteSets, FiniteSetsExt, Sequences, SequencesExt

CONSTANTS
  Paths,            \* what callers name, as sequences of components
  MAX_PATH_BYTES, MAX_FILES, MAX_RECORD_BYTES,
  RECORD_HEADER_BYTES, RECORD_ENTRY_BYTES,
  DataBytes(_),     \* length of a file's data
  NoData,           \* the data of a directory
  Data, Modes,      \* what callers write, and the permissions they ask for
  FirstSnapshots,   \* what a mount may find on the disk it is first given
  MaxGeneration     \* stands for u64::MAX, where checked_add fails

VARIABLES
  mounted,          \* a CodexFs value exists
  files,            \* its tree: a function from names to entries
  generation,       \* its generation
  stored,           \* the snapshot of the last acknowledged commit
  unsure,           \* the snapshot of a commit that failed half way, if any
  error             \* what the last call returned

fsvars == <<mounted, files, generation, stored, unsure, error>>

File == "file"
Directory == "directory"
OwnerBits == {"r", "w", "x"}
Entry(kind, data, permissions) ==
  [kind |-> kind, data |-> data, permissions |-> permissions]
DEFAULT_FILE_PERMISSIONS == {"r", "w"}
DEFAULT_DIRECTORY_PERMISSIONS == OwnerBits
KeepPermissions == {"keep"}

NoFiles == <<>>
Blank == [version |-> 0, generation |-> 0, files |-> NoFiles]

Ok(tree) == [error |-> "none", tree |-> tree]
Err(e) == [error |-> e, tree |-> NoFiles]
Then(result, op(_)) == IF result.error = "none" THEN op(result.tree) ELSE result

-----------------------------------------------------------------------------
(* Paths and permissions *)

Root == <<>>

PathBytes(path) == 2 * Len(path)

validate_path(path) ==
  /\ path # Root
  /\ PathBytes(path) <= MAX_PATH_BYTES
  /\ Range(path) \cap {"", ".", ".."} = {}

validate_permissions(permissions) == permissions \subseteq OwnerBits

parent_path(path) == Front(path)

Ancestors(path) == {SubSeq(path, 1, n) : n \in 1 .. Len(path) - 1}

IsDirectory(tree, path) == path \in DOMAIN tree /\ tree[path].kind = Directory

\* What ensure_parent_directory returns for a path of the tree.
ensure_parent_directory(tree, path) ==
  LET parent == parent_path(path)
  IN  CASE parent = Root -> "none"
        [] parent # Root /\ parent \notin DOMAIN tree -> "ParentMissing"
        [] parent \in DOMAIN tree /\ tree[parent].kind # Directory ->
             "NotDirectory"
        [] parent \in DOMAIN tree /\ tree[parent].kind = Directory ->
             IF {"w", "x"} \subseteq tree[parent].permissions
             THEN "none" ELSE "PermissionDenied"

Put(tree, path, entry) ==
  [p \in DOMAIN tree \cup {path} |-> IF p = path THEN entry ELSE tree[p]]

Without(tree, path) == [p \in DOMAIN tree \ {path} |-> tree[p]]

\* When a name is taken by a file and the table is full as well, the code
\* reports whichever comes first in name order.
materialize_missing_parent_directories(tree) ==
  LET required == UNION {Ancestors(p) : p \in DOMAIN tree}
      missing == required \ DOMAIN tree
      all == DOMAIN tree \cup missing
  IN  CASE \E p \in required \ missing : tree[p].kind # Directory ->
             Err("NotDirectory")
        [] \A p \in required \ missing : tree[p].kind = Directory ->
             IF missing # {} /\ Cardinality(all) > MAX_FILES
             THEN Err("TooManyFiles")
             ELSE Ok([p \in all |->
                        IF p \in missing
                        THEN Entry(Directory, NoData,
                                   DEFAULT_DIRECTORY_PERMISSIONS)
                        ELSE tree[p]])

-----------------------------------------------------------------------------
(* Records *)

\* validate_tree accepts the tree.
validate_tree(tree, require_directories) ==
  \A p \in DOMAIN tree :
    /\ validate_path(p)
    /\ validate_permissions(tree[p].permissions)
    /\ tree[p].kind = Directory =>
         /\ tree[p].data = NoData
         /\ "x" \in tree[p].permissions
    /\ require_directories => ensure_parent_directory(tree, p) = "none"

required_record_bytes(tree) ==
  RECORD_HEADER_BYTES
  + MapThenSumSet(LAMBDA p : RECORD_ENTRY_BYTES + PathBytes(p) + DataBytes(tree[p].data),
                  DOMAIN tree)

\* Mutant: encode_record trusts the tree.
encode_record_unvalidated(tree) ==
  CASE Cardinality(DOMAIN tree) > MAX_FILES -> "TooManyFiles"
    [] required_record_bytes(tree) > MAX_RECORD_BYTES -> "SnapshotTooLarge"
    [] OTHER -> "none"

\* What encode_record reports for the tree.
encode_record(tree) ==
  CASE Cardinality(DOMAIN tree) > MAX_FILES -> "TooManyFiles"
    [] ~validate_tree(tree, TRUE) -> "InvalidTree"
    [] required_record_bytes(tree) > MAX_RECORD_BYTES -> "SnapshotTooLarge"
    [] OTHER -> "none"

\* decode_record accepts the snapshot.  A version 1 record knows files only.
decode_record(snapshot) ==
  /\ Cardinality(DOMAIN snapshot.files) <= MAX_FILES
  /\ snapshot.version = 1 =>
       \A p \in DOMAIN snapshot.files :
         /\ snapshot.files[p].kind = File
         /\ snapshot.files[p].permissions = DEFAULT_FILE_PERMISSIONS
  /\ validate_tree(snapshot.files, snapshot.version # 1)

-----------------------------------------------------------------------------
(* The calls, as the tree they would commit *)

insert_directory(tree, path, permissions) ==
  LET parent == ensure_parent_directory(tree, path)
  IN  CASE parent # "none" -> Err(parent)
        [] parent = "none" /\ IsDirectory(tree, path) ->
             Ok([tree EXCEPT ![path].permissions = permissions])
        [] parent = "none" /\ path \in DOMAIN tree /\ ~IsDirectory(tree, path) ->
             Err("NotDirectory")
        [] parent = "none" /\ path \notin DOMAIN tree ->
             IF Cardinality(DOMAIN tree) >= MAX_FILES
             THEN Err("TooManyFiles")
             ELSE Ok(Put(tree, path, Entry(Directory, NoData, permissions)))

Checked(path, permissions, result) ==
  CASE ~validate_path(path) -> Err("InvalidPath")
    [] validate_path(path) /\ ~validate_permissions(permissions) ->
         Err("InvalidPermissions")
    [] OTHER -> Then(result, materialize_missing_parent_directories)

create_dir(tree, path, permissions) ==
  Checked(path, permissions, insert_directory(tree, path, permissions))

\* One round of the loop over the prefixes of the path.
CreateComponent(result, path, current, permissions) ==
  Then(result,
       LAMBDA tree :
         IF current \in DOMAIN tree
         THEN IF IsDirectory(tree, current) THEN Ok(tree)
              ELSE Err("NotDirectory")
         ELSE insert_directory(tree, current,
                IF current = path THEN permissions
                ELSE DEFAULT_DIRECTORY_PERMISSIONS))

create_dir_all(tree, path, permissions) ==
  Checked(path, permissions,
    FoldLeft(LAMBDA result, n :
               CreateComponent(result, path, SubSeq(path, 1, n), permissions),
             Ok(tree), [n \in 1 .. Len(path) |-> n]))

set_permissions(tree, path, permissions) ==
  Checked(path, permissions,
    IF path \in DOMAIN tree
    THEN Ok([tree EXCEPT ![path].permissions = permissions])
    ELSE Err("NotFound"))

remove_file(tree, path) ==
  Checked(path, {},
    CASE path \notin DOMAIN tree -> Err("NotFound")
      [] path \in DOMAIN tree /\ tree[path].kind # File -> Err("IsDirectory")
      [] path \in DOMAIN tree /\ tree[path].kind = File ->
           IF "w" \in tree[path].permissions
           THEN Ok(Without(tree, path)) ELSE Err("PermissionDenied"))

remove_dir(tree, path) ==
  Checked(path, {},
    CASE path \notin DOMAIN tree -> Err("NotFound")
      [] path \in DOMAIN tree /\ ~IsDirectory(tree, path) -> Err("NotDirectory")
      [] IsDirectory(tree, path) ->
           IF "w" \notin tree[path].permissions THEN Err("PermissionDenied")
           ELSE IF \E p \in DOMAIN tree : parent_path(p) = path
           THEN Err("DirectoryNotEmpty")
           ELSE Ok(Without(tree, path)))

Overwrite(tree, path, data, permissions) ==
  CASE tree[path].kind # File -> Err("IsDirectory")
    [] tree[path].kind = File /\ "w" \notin tree[path].permissions ->
         Err("PermissionDenied")
    [] OTHER ->
         Ok(Put(tree, path,
                Entry(File, data,
                      IF permissions = KeepPermissions
                      THEN tree[path].permissions ELSE permissions)))

\* write_file and write_file_with_permissions, which looks at the permissions
\* first.
write_file_inner(tree, path, data, permissions) ==
  LET parent == ensure_parent_directory(tree, path)
      mode == IF permissions = KeepPermissions
              THEN DEFAULT_FILE_PERMISSIONS ELSE permissions
  IN  IF ~validate_permissions(mode) THEN Err("InvalidPermissions")
      ELSE Checked(path, mode,
        CASE parent # "none" -> Err(parent)
          [] parent = "none" /\ path \in DOMAIN tree ->
               Overwrite(tree, path, data, permissions)
          [] parent = "none" /\ path \notin DOMAIN tree ->
               IF Cardinality(DOMAIN tree) >= MAX_FILES
               THEN Err("TooManyFiles")
               ELSE Ok(Put(tree, path, Entry(File, data, mode))))

read_file(tree, path) ==
  IF path \in DOMAIN tree /\ tree[path].kind = File /\ "r" \in tree[path].permissions
  THEN {tree[path].data} ELSE {}

metadata(tree, path) ==
  CASE path = Root -> {Entry(Directory, NoData, DEFAULT_DIRECTORY_PERMISSIONS)}
    [] path # Root /\ validate_path(path) /\ path \in DOMAIN tree -> {tree[path]}
    [] OTHER -> {}

list_dir(tree, path) ==
  IF path = Root \/ IsDirectory(tree, path)
  THEN {p \in DOMAIN tree : parent_path(p) = path} ELSE {}

-----------------------------------------------------------------------------
(* The filesystem value *)

FsInit ==
  /\ mounted = FALSE
  /\ files = NoFiles
  /\ generation = 0
  /\ stored \in FirstSnapshots
  /\ unsure = {}
  /\ error = "none"

Snapshot(tree) ==
  [version |-> 3, generation |-> generation + 1, files |-> tree]

Refused(e) ==
  /\ error' = e
  /\ UNCHANGED <<mounted, files, generation, stored, unsure>>

\* commit_files is acknowledged, and the caller takes over the new tree.
Acknowledged(tree) ==
  /\ stored' = Snapshot(tree)
  /\ unsure' = {}
  /\ files' = tree
  /\ generation' = generation + 1
  /\ error' = "none"
  /\ UNCHANGED mounted

\* The device failed.  The superblock may already be on the medium, or the
\* new record may have been written over that of the previous failure.
CommitFailed(tree) ==
  /\ unsure' \in {unsure, {}, {Snapshot(tree)}}
  /\ error' = "Block"
  /\ UNCHANGED <<mounted, files, generation, stored>>

commit_files(tree) ==
  CASE generation >= MaxGeneration -> Refused("ArithmeticOverflow")
    [] generation < MaxGeneration /\ encode_record(tree) # "none" ->
         Refused(encode_record(tree))
    [] OTHER -> Acknowledged(tree) \/ CommitFailed(tree)

\* A call that ends in commit_files; some calls skip it when nothing changes.
Call(result, skips) ==
  /\ mounted
  /\ CASE result.error # "none" -> Refused(result.error)
       [] result.error = "none" /\ skips /\ result.tree = files -> Refused("none")
       [] OTHER -> commit_files(result.tree)

\* mount_or_format.  A blank disk is formatted.  A read error ends the mount
\* here; in a record, the code goes on with the older one (CodexFs).
Load(snapshot) ==
  /\ mounted' = TRUE
  /\ files' = snapshot.files
  /\ generation' = snapshot.generation
  /\ stored' = snapshot
  /\ unsure' = {}
  /\ error' = "none"

Formatted == [version |-> 3, generation |-> 1, files |-> NoFiles]

FormatFails ==
  /\ unsure' \in {unsure, {Formatted}}
  /\ error' = "Block"
  /\ UNCHANGED <<mounted, files, generation, stored>>

mount_or_format ==
  /\ ~mounted
  /\ \/ \E snapshot \in {stored} \cup unsure :
          CASE snapshot.version = 0 -> Load(Formatted) \/ FormatFails
            [] snapshot.version # 0 /\ decode_record(snapshot) -> Load(snapshot)
            [] OTHER -> Refused("CorruptSuperblocks")
     \/ Refused("Block")

\* The newest snapshot the medium shows must be the one in memory.  Block stands
\* for every read error, also for one in the newest record, where the code finds
\* the older one and reports VerificationFailed.
verify_committed_state ==
  /\ mounted
  /\ \/ \E snapshot \in {stored} \cup unsure :
          Refused(IF snapshot.generation = generation /\ snapshot.files = files
                  THEN "none" ELSE "VerificationFailed")
     \/ Refused("Block")

\* The value is dropped, or the power is lost.
FsDrop ==
  /\ mounted' = FALSE
  /\ files' = NoFiles
  /\ generation' = 0
  /\ error' = "none"
  /\ UNCHANGED <<stored, unsure>>

-----------------------------------------------------------------------------
(* Any caller: calls in any order, with any argument *)

CreateDir == \E path \in Paths, mode \in Modes :
  Call(create_dir(files, path, mode), TRUE)
CreateDirAll == \E path \in Paths, mode \in Modes :
  Call(create_dir_all(files, path, mode), TRUE)
SetPermissions == \E path \in Paths, mode \in Modes :
  Call(set_permissions(files, path, mode), TRUE)
RemoveFile == \E path \in Paths : Call(remove_file(files, path), FALSE)
RemoveDir == \E path \in Paths : Call(remove_dir(files, path), FALSE)
WriteFile == \E path \in Paths, data \in Data, mode \in Modes \cup {KeepPermissions} :
  Call(write_file_inner(files, path, data, mode), FALSE)

FsCalls ==
  \/ CreateDir \/ CreateDirAll \/ SetPermissions
  \/ RemoveFile \/ RemoveDir \/ WriteFile
  \/ verify_committed_state

FsNext == mount_or_format \/ FsCalls \/ FsDrop

-----------------------------------------------------------------------------
(* Properties *)

\* The tree in memory is one the record format has a place for: at most
\* MAX_FILES names, each with a kind, data and owner permissions.
FsTypeOK ==
  /\ mounted \in BOOLEAN
  /\ \A p \in DOMAIN files : p # Root /\ PathBytes(p) <= MAX_PATH_BYTES
  /\ Cardinality(DOMAIN files) <= MAX_FILES
  /\ \A p \in DOMAIN files :
       /\ files[p].kind \in {File, Directory}
       /\ files[p].permissions \subseteq OwnerBits
  /\ generation \in 0 .. MaxGeneration
  /\ Cardinality(unsure) <= 1

\* What a commit puts on the disk, decode_record accepts again: no sequence of
\* calls, however it ends, writes a snapshot the next mount has to reject.  A
\* directory that lost its write permission while it has entries would be one.
Remountable ==
  \A snapshot \in {stored} \cup unsure :
    snapshot.version # 0 => decode_record(snapshot)

\* A mounted filesystem shows what its last acknowledged commit stored, also
\* after calls that failed half way: self.files moves after commit_files does.
MemoryIsCommitted ==
  mounted => files = stored.files /\ generation = stored.generation

\* A file without owner write permission keeps its data and its name until
\* set_permissions or a remount: no other call reaches it, not even one on a
\* directory above it.
ReadOnlyKept ==
  [][mounted /\ mounted' =>
       \A p \in DOMAIN files :
         files[p].kind = File /\ "w" \notin files[p].permissions =>
           p \in DOMAIN files' /\ files'[p].data = files[p].data]_fsvars

\* A removal that succeeds takes exactly that name out of the listings, and
\* only when nothing is below it: materialize_missing_parent_directories, which
\* runs after it, must find nothing to bring back.
RemovalIsReal ==
  mounted /\ stored.version = 3 =>
    \A path \in DOMAIN files :
      LET result == IF IsDirectory(files, path) THEN remove_dir(files, path)
                    ELSE remove_file(files, path)
          parent == parent_path(path)
      IN  result.error = "none" =>
            /\ list_dir(files, path) = {}
            /\ list_dir(result.tree, parent) = list_dir(files, parent) \ {path}
            /\ DOMAIN result.tree = DOMAIN files \ {path}

\* The tree in memory, the one on disk and what callers see stay together over
\* any sequence of calls: what was or may have been committed can be mounted,
\* memory holds what was committed, and a removal removes one entry only.
TreeKept == FsTypeOK /\ Remountable /\ MemoryIsCommitted /\ RemovalIsReal
=============================================================================
