------------------------------ MODULE InfoFile ------------------------------
(***************************************************************************)
(* A container's configuration on its way from the options of run to the   *)
(* mounts and the control group, through info.json, and back out of it in  *)
(* every start.  Texts are sequences of tokens: ":", "," and "ro" count,   *)
(* every other token is a piece of a name or a path.  The files of name    *)
(* resolution and interrupted writes are Lifecycle's subject.              *)
(***************************************************************************)
EXTENDS SequencesExt

CONSTANTS Options    (* what run may be given: records of a text volume, a
                        text image, a sequence argv and a limit memory        *)

NoLimit == "none"
Nothing == [argv |-> <<>>]

VARIABLES
    given,    (* the options of the run that creates the container          *)
    specs,    (* what run has not read yet of the volume specifications     *)
    obj,      (* ContainerInstance: _argv, _image_info, _volumes, _cgroups   *)
    doc,      (* info.json                                                  *)
    mounts,   (* the bind mounts of the volumes, as the kernel made them    *)
    pc

vars == <<given, specs, obj, doc, mounts, pc>>

-----------------------------------------------------------------------------
(* One call of getline() on a stream with text left in it: the field it     *)
(* returns, and what it leaves.  On an empty stream it fails.               *)
Cut(text, delim) == Min({i \in DOMAIN text : text[i] = delim} \cup {Len(text) + 1})
Field(text, delim) == SubSeq(text, 1, Cut(text, delim) - 1)
After(text, delim) == SubSeq(text, Cut(text, delim) + 1, Len(text))

(* Fault: more fields than three are passed over. *)
DecomposeAny(spec) ==
    LET two == After(spec, ":")
        three == After(two, ":")
    IN  [ok |-> TRUE, src |-> Field(spec, ":"), dest |-> Field(two, ":"),
         opt |-> Field(three, ":")]

(* A fourth field is an error.                                              *)
Decompose(spec) ==
    LET two == After(spec, ":")
        three == After(two, ":")
    IN  [ok |-> After(three, ":") = <<>>, src |-> Field(spec, ":"), dest |-> Field(two, ":"),
         opt |-> Field(three, ":")]

(* Fault: a specification without a destination passes. *)
IsValidSpecNoDest(spec) ==
    LET v == Decompose(spec)
    IN  v.ok /\ v.src # <<>> /\ v.opt \in {<<>>, <<"ro">>}

IsValidSpec(spec) ==
    LET v == Decompose(spec)
    IN  v.ok /\ v.src # <<>> /\ v.dest # <<>> /\ v.opt \in {<<>>, <<"ro">>}

Volume(spec) ==
    LET v == Decompose(spec)
    IN  [src |-> v.src, dest |-> v.dest, readOnly |-> v.opt = <<"ro">>]

(* Fault: the option is left out. *)
GetSpecStringBare(v) == v.src \o <<":">> \o v.dest

GetSpecString(v) == v.src \o <<":">> \o v.dest \o IF v.readOnly THEN <<":", "ro">> ELSE <<>>

(* Fault: no tag when there is a colon and nothing behind it. *)
ImageInfoNoDefault(name) ==
    [repo |-> Field(name, ":"),
     tag |-> IF Cut(name, ":") > Len(name) THEN <<"latest">> ELSE After(name, ":")]

OrLatest(tag) == IF tag = <<>> THEN <<"latest">> ELSE tag

(* strchr(): what is behind the first colon is the tag, colons and all.     *)
ImageInfo(name) == [repo |-> Field(name, ":"), tag |-> OrLatest(After(name, ":"))]

(* import_image.sh's own way with the name, by awk: its second field.       *)
ImportDir(name) ==
    [repo |-> Field(name, ":"), tag |-> OrLatest(Field(After(name, ":"), ":"))]

-----------------------------------------------------------------------------
Init ==
    /\ given \in Options
    /\ specs = <<>> /\ obj = Nothing /\ doc = Nothing /\ mounts = <<>>
    /\ pc = "new"

(* The constructor of cmd_run(). *)
Construct ==
    /\ pc = "new" /\ pc' = "volumes"
    /\ obj' = [argv |-> given.argv, image |-> ImageInfo(given.image), volumes |-> <<>>,
               memory |-> NoLimit]
    /\ specs' = given.volume
    /\ UNCHANGED <<given, doc, mounts>>

AddVolume ==
    /\ pc = "volumes" /\ specs # <<>> /\ IsValidSpec(Field(specs, ","))
    /\ obj' = [obj EXCEPT !.volumes = Append(@, Volume(Field(specs, ",")))]
    /\ specs' = After(specs, ",")
    /\ UNCHANGED <<given, doc, mounts, pc>>

InvalidSpec ==
    /\ pc = "volumes" /\ specs # <<>> /\ ~IsValidSpec(Field(specs, ","))
    /\ pc' = "refused"
    /\ UNCHANGED <<given, specs, obj, doc, mounts>>

AddCgroup ==
    /\ pc = "volumes" /\ specs = <<>> /\ pc' = "serialize"
    /\ obj' = [obj EXCEPT !.memory = given.memory]
    /\ UNCHANGED <<given, specs, doc, mounts>>

(* Everything but the control group. *)
Serialize ==
    /\ pc = "serialize" /\ pc' = "mount"
    /\ doc' = [argv |-> obj.argv, image |-> obj.image,
               volumes |-> [i \in DOMAIN obj.volumes |-> GetSpecString(obj.volumes[i])]]
    /\ UNCHANGED <<given, specs, obj, mounts>>

(* mount(2) with MS_BIND takes no other flag: MS_RDONLY is passed over.     *)
MountVolumes ==
    /\ pc = "mount" /\ pc' = "running"
    /\ mounts' = [i \in DOMAIN obj.volumes |-> [obj.volumes[i] EXCEPT !.readOnly = FALSE]]
    /\ UNCHANGED <<given, specs, obj, doc>>

Stop ==
    /\ pc = "running" /\ pc' = "stopped"
    /\ obj' = Nothing /\ mounts' = <<>>
    /\ UNCHANGED <<given, specs, doc>>

Deserialize ==
    /\ pc = "stopped" /\ pc' = "mount"
    /\ obj' = [argv |-> doc.argv, image |-> doc.image, memory |-> NoLimit,
               volumes |-> [i \in DOMAIN doc.volumes |-> Volume(doc.volumes[i])]]
    /\ UNCHANGED <<given, specs, doc, mounts>>

Next ==
    \/ Construct \/ AddVolume \/ InvalidSpec \/ AddCgroup \/ Serialize
    \/ MountVolumes \/ Stop \/ Deserialize

Spec == Init /\ [][Next]_vars

-----------------------------------------------------------------------------
(* What the --volume text means, by its shape: pieces between commas, each  *)
(* of a source, a colon, a destination, and "ro" behind a second colon or   *)
(* not; the last comma and the last colon may be left standing.             *)

Cuts(text) == {i \in DOMAIN text : text[i] = ","} \cup {0, Len(text) + 1}
NthCut(text, n) == CHOOSE c \in Cuts(text) : Cardinality({b \in Cuts(text) : b < c}) = n
Pieces(text) ==
    LET all == [n \in 1..(Cardinality(Cuts(text)) - 1) |->
                   SubSeq(text, NthCut(text, n - 1) + 1, NthCut(text, n) - 1)]
    IN  IF Last(all) = <<>> THEN Front(all) ELSE all

Reads(piece, v) ==
    \E tail \in IF v.readOnly THEN {<<":", "ro">>, <<":", "ro", ":">>}
                              ELSE {<<>>, <<":">>, <<":", ":">>} :
        piece = v.src \o <<":">> \o v.dest \o tail

Parts(piece) == {SubSeq(piece, i, j) : i, j \in DOMAIN piece}
Paths(piece) == {p \in Parts(piece) : p # <<>> /\ ":" \notin ToSet(p)}
Means(piece) ==
    {v \in [src : Paths(piece), dest : Paths(piece), readOnly : BOOLEAN] : Reads(piece, v)}

(* Every variable has the values the commands can give it.                  *)
TypeOK ==
    /\ pc \in {"new", "volumes", "refused", "serialize", "mount", "running", "stopped"}
    /\ obj # Nothing => \A v \in ToSet(obj.volumes) : v.src # <<>> /\ v.dest # <<>>
    /\ doc # Nothing => \A s \in ToSet(doc.volumes) : IsValidSpec(s)

(* Run takes exactly the texts that have a meaning, and takes them to mean  *)
(* that (cmd_run.cpp:53-66, volume.cpp:24-66).                              *)
AcceptedAsWritten ==
    LET pieces == Pieces(given.volume)
    IN  /\ pc = "refused" => \E p \in ToSet(pieces) : Means(p) = {}
        /\ pc = "serialize" =>
             /\ Len(obj.volumes) = Len(pieces)
             /\ \A i \in DOMAIN pieces : Means(pieces[i]) = {obj.volumes[i]}

(* What start reads back out of info.json is what run had put together:     *)
(* arguments, image, and volumes in their order with their options          *)
(* (container.cpp:118-158, 165-209).                                        *)
RestoredAsCreated ==
    pc = "mount" =>
        /\ obj.argv = given.argv
        /\ obj.image = ImageInfo(given.image)
        /\ [i \in DOMAIN obj.volumes |-> {obj.volumes[i]}]
             = [i \in DOMAIN Pieces(given.volume) |-> Means(Pieces(given.volume)[i])]

(* The directory a container is made from is the one that import_image.sh   *)
(* extracted the image of that name to, for the names of one colon at most  *)
(* and for no other (image.cpp:17-30, import_image.sh:33-39).               *)
ImportedIsFound ==
    pc # "new" /\ obj # Nothing =>
        (obj.image = ImportDir(given.image)
            <=> \A i, j \in DOMAIN given.image :
                    given.image[i] = ":" /\ given.image[j] = ":" => i = j)

(* "appending `:ro` to the volume flag to make the mount read-only"         *)
(* (README.md:141).                                                         *)
ReadOnlyKept ==
    pc = "running" => \A i \in DOMAIN mounts : mounts[i].readOnly = obj.volumes[i].readOnly

(* "Use `--memory` to restrict memory usage" (README.md:153), in every      *)
(* session of the container.                                                *)
LimitKept == pc = "running" => obj.memory = given.memory

=============================================================================
