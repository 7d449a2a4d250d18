------------------------ MODULE RegistryRefinement ------------------------
(***************************************************************************)
(* The registry, while no system call fails, implements ArtifactStore: its *)
(* many-step handlers, reloads, crashes and restarts look to clients like  *)
(* calls that take effect one at a time.  An upload takes effect when its  *)
(* temporary is renamed onto its destination, a download when its file is  *)
(* opened, a listing or a health check when it reads the index.            *)
(***************************************************************************)
EXTENDS Registry

\* The upload of h has been renamed onto its destination.
Applied(h) == pc[h] \notin {"stage", "lock", "locked", "validate"} /\ temp[h] = Absent

CallOf(h) ==
    IF req[h] = Absent THEN Absent
    ELSE IF Uploading(h)
    THEN [kind |-> req[h].kind, path |-> req[h].path,
          content |-> req[h].content, done |-> Applied(h)]
    ELSE IF req[h].kind \in {"get", "revget"}
    THEN [kind |-> req[h].kind, path |-> req[h].path,
          content |-> out[h], done |-> pc[h] = "stream"]
    ELSE [kind |-> req[h].kind, path |-> Absent, content |-> Absent, done |-> FALSE]

\* A call is not the absence of one.
CallRecord == [kind : {"publish", "revput", "get", "revget", "list", "health"},
               path : Names \cup Issuers \cup {Absent},
               content : Bodies \cup RevocationList \cup {Absent}, done : BOOLEAN]
ASSUME CallsAssumption == Absent \notin CallRecord

AnswerOf(h) ==
    IF status[h] = 0 THEN Absent ELSE [code |-> status[h], payload |-> out[h]]

Store == INSTANCE ArtifactStore WITH
    Clients  <- Handlers,
    Values   <- Bodies \cup RevocationList,
    Storable <- LAMBDA v, x : IF x \in Names THEN ValidArchive(v) ELSE ValidList(v, x),
    Success  <- 201, Found <- 200, Missing <- 404, Refused <- {400, 401, 405, 413, 500},
    store    <- [x \in Names \cup Issuers |-> Contents(x)],
    call     <- [h \in Handlers |-> CallOf(h)],
    answer   <- [h \in Handlers |-> AnswerOf(h)]

\* Clients cannot tell the registry from a store whose calls take effect one
\* at a time: what a listing or a download returns was the state of the whole
\* store at one instant of that call, a 201 means the upload has taken effect
\* once, any refusal that it has not and never will.
Linearizable == Store!Spec
=============================================================================
