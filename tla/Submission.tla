------------------------------ MODULE Submission ------------------------------
(***************************************************************************)
(* Submitting a job bundle: inputs are expanded, grouped by root, and for  *)
(* each root hashed, uploaded and described by a manifest in S3            *)
(* (ja-deadline-utils/src/bundle_submit.rs, conversion.rs;                 *)
(* filesystem/src/expand.rs), while somebody works on the files.           *)
(* How one file is read is in Scanner, how it is uploaded in Upload.       *)
(***************************************************************************)
EXTENDS Grouping, Functions

CONSTANTS
  Tree,         \* paths of files and directories
  Requests,     \* [inputs, outputs, references, profile, strict]
  MaxTouches    \* bound: changes of the files meanwhile

VARIABLES
  request,
  files,        \* path -> "none", "dir", or the content of a file
  touched,      \* history: files that were changed or removed
  step,         \* where the submission is: "expand" ... "done" or "failed"
  found,        \* expanded.files
  left,         \* groups not yet done
  current,      \* the group in work, with its manifest
  objects,      \* content addressed objects: hash -> content
  manifests,    \* manifests in S3: key -> manifest
  attachments   \* the ManifestProperties so far

submissionVars == <<request, files, touched, step, found, left, current, objects, manifests, attachments>>

NoGroup   == [root |-> "none"]
IsDir(p)  == p = << >> \/ (p \in Tree /\ files[p] = "dir")
IsFile(p) == p \in Tree /\ files[p] \notin {"none", "dir"}
Exists(p) == IsDir(p) \/ IsFile(p)
Disk      == [there |-> {p \in Tree \cup {<< >>} : Exists(p)}, files |-> {p \in Tree : IsFile(p)}]

SubmissionInit(trees) ==
  /\ request \in Requests
  /\ files \in trees
  /\ touched = {}
  /\ step = "expand"
  /\ found = {} /\ left = {} /\ current = NoGroup
  /\ objects = << >> /\ manifests = << >>
  /\ attachments = {}

Fail ==
  /\ step' = "failed"
  /\ UNCHANGED <<request, files, touched, found, left, current, objects, manifests, attachments>>

\* walk_directory_for_files; a file is itself.
FilesOf(p) == {q \in Tree : IsPrefix(p, q) /\ IsFile(q)}

\* expand_input_paths; what is missing is set aside and never used.
Expand ==
  /\ step = "expand"
  /\ IF request.strict /\ \E p \in request.inputs : ~Exists(p) THEN Fail
     ELSE /\ found' = UNION {FilesOf(p) : p \in request.inputs}
          /\ step' = "group"
          /\ UNCHANGED <<request, files, touched, left, current, objects, manifests, attachments>>

Group ==
  LET grouped == GroupsValidated(found, request.outputs, request.references, request.profile,
                                 request.strict, Disk) IN
  /\ step = "group"
  /\ IF grouped.error THEN Fail
     ELSE /\ left' = grouped.groups
          /\ step' = "next"
          /\ UNCHANGED <<request, files, touched, found, current, objects, manifests, attachments>>

\* build_manifest_properties
Rel(p, root) == SubSeq(p, Len(root) + 1, Len(p))

Properties(group, key) ==
  [root |-> group.root, location |-> group.location, input |-> key,
   outputs |-> {Rel(p, group.root) : p \in {q \in group.outputs : IsPrefix(group.root, q)}}]

\* The groups are sorted; their order makes no difference here.
FirstOf(groups) == CHOOSE g \in groups : TRUE

\* A group without inputs has no manifest.
AttachOutputs ==
  /\ step = "next" /\ left # {}
  /\ LET g == FirstOf(left) IN
     /\ g.inputs = {}
     /\ left' = left \ {g}
     /\ attachments' = attachments \cup {Properties(g, << >>)}
  /\ UNCHANGED <<request, files, touched, step, found, current, objects, manifests>>

\* snapshot of the listed files: what is gone or a directory by now is left out, what
\* does not lie below the root is an error.
ScanGroup ==
  /\ step = "next" /\ left # {}
  /\ LET g == FirstOf(left) IN
     /\ g.inputs # {}
     /\ IF \E p \in g.inputs : ~IsPrefix(g.root, p) THEN Fail
        ELSE /\ left' = left \ {g}
             /\ current' = [group |-> g,
                            manifest |-> [p \in {q \in g.inputs : IsFile(q)} |-> files[p]],
                            todo |-> {q \in g.inputs : IsFile(q)}]
             /\ step' = "upload"
             /\ UNCHANGED <<request, files, touched, found, objects, manifests, attachments>>

ManifestKey(group) == <<group.location, group.root>>

\* An object that is there is not uploaded again, and its file not read.
UploadFile(p) ==
  /\ step = "upload" /\ p \in current.todo
  /\ IF current.manifest[p] \notin DOMAIN objects /\ ~IsFile(p) THEN Fail
     ELSE /\ current' = [current EXCEPT !.todo = @ \ {p}]
          /\ objects' = IF current.manifest[p] \in DOMAIN objects THEN objects
                        ELSE objects @@ (current.manifest[p] :> files[p])
          /\ UNCHANGED <<request, files, touched, step, found, left, manifests, attachments>>

\* A key of its own: a random id and the hash of the root.
UploadInputManifest(group, manifest) == manifests' = manifests @@ (ManifestKey(group) :> manifest)

PutManifest ==
  /\ step = "upload" /\ current.todo = {}
  /\ UploadInputManifest(current.group, current.manifest)
  /\ attachments' = attachments \cup {Properties(current.group, ManifestKey(current.group))}
  /\ step' = "next"
  /\ current' = NoGroup
  /\ UNCHANGED <<request, files, touched, found, left, objects>>

Finish ==
  /\ step = "next" /\ left = {}
  /\ step' = "done"
  /\ UNCHANGED <<request, files, touched, found, left, current, objects, manifests, attachments>>

\* A request to S3 fails.
StorageFails == step = "upload" /\ Fail

Touch(p, content) ==
  /\ step \notin {"expand", "done", "failed"} /\ Cardinality(touched) < MaxTouches
  /\ IsFile(p) /\ files[p] # content /\ p \notin touched
  /\ files' = [files EXCEPT ![p] = content]
  /\ touched' = touched \cup {p}
  /\ UNCHANGED <<request, step, found, left, current, objects, manifests, attachments>>

SubmissionNext ==
  \/ Expand \/ Group \/ AttachOutputs \/ ScanGroup \/ PutManifest \/ Finish \/ StorageFails
  \/ step = "upload" /\ \E p \in current.todo : UploadFile(p)
  \/ \E p \in Tree, content \in {"none", "dir", "new"} : Touch(p, content)

-----------------------------------------------------------------------------
(* Properties *)

Steps == {"expand", "group", "next", "upload", "done", "failed"}

SubmissionTypeOK ==
  /\ step \in Steps
  /\ found \subseteq Tree
  /\ step = "upload" => current # NoGroup
  /\ \A a \in attachments : a.input # << >> => a.input \in DOMAIN manifests

Wanted == {p \in UNION {{q \in Tree : IsPrefix(i, q) /\ IsFile(q)} : i \in request.inputs} :
             ~IsUnderShared(p, request.profile)}

\* A submission that succeeds attaches every file it was asked for, and that nobody
\* touched meanwhile, to exactly one root it lies below, and nothing of a SHARED location.
InputsAreAttached ==
  step = "done" =>
    /\ \A p \in Wanted \ touched :
         Cardinality({a \in attachments : a.input # << >> /\ p \in DOMAIN manifests[a.input]}) = 1
    /\ \A a \in attachments : a.input # << >> =>
         \A p \in DOMAIN manifests[a.input] :
           IsPrefix(a.root, p) /\ ~IsUnderShared(p, request.profile)

\* Every object a manifest of the submission names is in S3, also when files vanish
\* or are replaced meanwhile.
AttachedIsUploaded ==
  step = "done" =>
    \A a \in attachments : a.input # << >> =>
      \A p \in DOMAIN manifests[a.input] : manifests[a.input][p] \in DOMAIN objects

\* No two attachments have the same root: the worker maps each to a directory of its own.
RootsDiffer == \A a, b \in attachments : a.root = b.root => a = b

\* Every output directory that is not SHARED is listed below the root of one attachment.
OutputsAreListed ==
  step = "done" =>
    \A p \in request.outputs : ~IsUnderShared(p, request.profile) =>
      \E a \in attachments : \E rel \in a.outputs : a.root \o rel = p

\* Statements that do not hold (README, section Divergences).

\* Missing inputs are treated as references: the root of the group covers them.
MissingIsReferenced ==
  step = "done" =>
    \A p \in request.inputs : ~IsUnderShared(p, request.profile) /\ ~Exists(p) =>
      \E a \in attachments : IsPrefix(a.root, p)

\* The object of a hash has the content that was hashed.
ObjectsMatch == \A h \in DOMAIN objects : objects[h] = h
=============================================================================
