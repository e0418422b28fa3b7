----------------------------- MODULE Registries ------------------------------
(***************************************************************************)
(* What the process keeps for all its parts by name: the names themselves  *)
(* (GlobalData) and the descriptors of messages (ProtobufFactory).         *)
(***************************************************************************)
EXTENDS Integers, Sequences, SequencesExt

(***************************************************************************)
(* cyber/common/global_data.cc: the names of nodes, channels, services and *)
(* tasks by their 64-bit hash.  The four registries are alike; this is     *)
(* one.  Each operation of ConcurrentHashMap (base/concurrent_hash_map.h)  *)
(* holds the lock of the key's bucket and is one step; Register...() makes *)
(* three of them and holds nothing in between.  Two names with one hash    *)
(* abort the process in a CHECK.                                           *)
(***************************************************************************)
CONSTANTS
  HashOf,       \* the hash of each name
  Registrars    \* threads

VARIABLES
  id_map,       \* what Get() finds, by hash: a name or Unset
  registrar,    \* per thread: the name it registers, and how far it is
  registered,   \* history: names whose registration has returned
  overlapped,   \* history: hashes of which two names were being registered
                \* at the same time
  aborted       \* a CHECK has failed

globalDataVars == <<id_map, registrar, registered, overlapped, aborted>>

Unset == "unset"
Names == DOMAIN HashOf
Hash(n) == HashOf[n]
Ids == {HashOf[n] : n \in Names}
Idle == [pc |-> "idle", name |-> Unset]

GlobalDataInit ==
  /\ id_map = [i \in Ids |-> Unset]
  /\ registrar = [t \in Registrars |-> Idle]
  /\ registered = {} /\ overlapped = {} /\ aborted = FALSE

\* ConcurrentHashMap: a bucket is a list searched for the key, which is a
\* function from keys; Insert() appends or overwrites.
Has(i) == id_map[i] # Unset
Insert(i, name) == id_map' = [id_map EXCEPT ![i] = name]

Busy(i) == \E t \in Registrars : registrar[t] # Idle /\ Hash(registrar[t].name) = i

\* RegisterNode(), RegisterChannel(), RegisterService(), RegisterTaskName()
Register(t, n) ==
  /\ registrar[t] = Idle
  /\ registrar' = [registrar EXCEPT ![t] =
       [pc |-> IF Has(Hash(n)) THEN "compare" ELSE "set", name |-> n]]
  /\ overlapped' = IF Busy(Hash(n)) THEN overlapped \union {Hash(n)} ELSE overlapped
  /\ UNCHANGED <<id_map, registered, aborted>>

\* Fault: the name found is not compared.
FaultyCompare(t) ==
  /\ registrar[t].pc = "compare"
  /\ registrar' = [registrar EXCEPT ![t].pc = "set"]
  /\ UNCHANGED <<id_map, registered, overlapped, aborted>>

Compare(t) ==
  /\ registrar[t].pc = "compare"
  /\ registrar' = [registrar EXCEPT ![t].pc = "set"]
  /\ aborted' = (id_map[Hash(registrar[t].name)] # registrar[t].name)
  /\ UNCHANGED <<id_map, registered, overlapped>>

Set(t) ==
  /\ registrar[t].pc = "set"
  /\ Insert(Hash(registrar[t].name), registrar[t].name)
  /\ registrar' = [registrar EXCEPT ![t] = Idle]
  /\ registered' = registered \union {registrar[t].name}
  /\ UNCHANGED <<overlapped, aborted>>

GlobalDataNext ==
  /\ ~aborted
  /\ \E t \in Registrars :
       \/ \E n \in Names : Register(t, n)
       \/ Compare(t) \/ Set(t)

-----------------------------------------------------------------------------
(***************************************************************************)
(* Get...ById() of the id that Register...() returned is the name that was *)
(* registered, for the rest of the process, unless two names with that     *)
(* hash were registered at the same time and both passed Has() before      *)
(* either was set.                                                         *)
(***************************************************************************)
NamesResolve ==
  \A n \in registered : Hash(n) \notin overlapped => id_map[Hash(n)] = n

-----------------------------------------------------------------------------
(***************************************************************************)
(* cyber/message: ProtobufFactory, the pool of message descriptors of the  *)
(* process.  A descriptor file is a version of a name with the files it    *)
(* imports, and defines one message type of its name.  A ProtoDesc is the  *)
(* tree of a file and its imports, which RegisterMessage walks from the    *)
(* leaves: it is given by the sequence of files in that order.             *)
(***************************************************************************)
CONSTANTS
  Schemas,       \* what the processes were compiled from: the versions of
                 \* the files, each file with its version and its imports
  Generated,     \* the schema this process was compiled from
  Registering    \* threads that register descriptors

VARIABLES
  pool_,         \* the files of DescriptorPool, by name
  registering,   \* each thread: the files it has still to register, and
                 \* what it was called with
  accepted       \* history: the calls that returned true

protobufVars == <<pool_, registering, accepted>>

FileNames == UNION {DOMAIN s : s \in Schemas}
NoFile == [version |-> 0, dependencies |-> <<>>]
NoCall == [todo |-> <<>>, proto_desc |-> <<>>]
Named(f, file) == [name |-> f, version |-> file.version, dependencies |-> file.dependencies]

ProtobufInit ==
  /\ pool_ = [f \in FileNames |-> NoFile]
  /\ registering = [t \in Registering |-> NoCall]
  /\ accepted = {}

-----------------------------------------------------------------------------
(* GetProtoDesc: the file with, for each import, the tree of that file.    *)
GetProtoDesc(files, f) ==
  LET desc[g \in DOMAIN files] ==
        FlattenSeq([i \in DOMAIN files[g].dependencies |-> desc[files[g].dependencies[i]]])
          \o <<Named(g, files[g])>>
  IN  desc[f]

Pool == [f \in {g \in FileNames : pool_[g] # NoFile} |-> pool_[f]]
FindMessageTypeByName(f) == f \in DOMAIN Pool

\* By its type, a message that was compiled in comes before a registered one;
\* a type nobody knows has no descriptor.
GetDescriptorString(f) ==
  IF f \in DOMAIN Generated THEN GetProtoDesc(Generated, f)
  ELSE IF FindMessageTypeByName(f) THEN GetProtoDesc(Pool, f)
  ELSE <<>>

GetMessageByGeneratedType(f) == IF f \in DOMAIN Generated THEN Generated[f] ELSE NoFile
GenerateMessageByType(f) ==
  IF GetMessageByGeneratedType(f) # NoFile THEN GetMessageByGeneratedType(f)
  ELSE pool_[f]

-----------------------------------------------------------------------------
(* DescriptorPool::BuildFileCollectingErrors (external): a file that is    *)
(* there already is found again; another one of its name, and one whose    *)
(* imports are not all there, is refused.                                  *)
Known(file) == [version |-> file.version, dependencies |-> file.dependencies]
BuildFile(file) ==
  \/ pool_[file.name] = Known(file)
  \/ /\ pool_[file.name] = NoFile
     /\ \A i \in DOMAIN file.dependencies : FindMessageTypeByName(file.dependencies[i])

\* RegisterMessage of a ProtoDesc, of the string it is written as, ...
RegisterMessage(t, s, f) ==
  LET proto_desc == GetProtoDesc(s, f) IN
  /\ registering[t] = NoCall
  /\ registering' = [registering EXCEPT ![t] =
                       [todo |-> proto_desc, proto_desc |-> proto_desc]]
  /\ UNCHANGED <<pool_, accepted>>

\* ... and of a message, a Descriptor or a file from Python: no imports.
RegisterFile(t, s, f) ==
  /\ registering[t] = NoCall
  /\ registering' = [registering EXCEPT ![t] =
                       [todo |-> <<Named(f, s[f])>>, proto_desc |-> <<Named(f, s[f])>>]]
  /\ UNCHANGED <<pool_, accepted>>

\* One file, under register_mutex_, which is free between the files: the
\* first that is refused ends the call, and the ones before it stay.
Returns(t, result) ==
  /\ registering' = [registering EXCEPT ![t] = NoCall]
  /\ accepted' = IF result THEN accepted \union {registering[t].proto_desc} ELSE accepted

\* Fault: what the registration of a dependency returns is not looked at.
FaultyRegisterNext(t) ==
  LET todo == registering[t].todo  built == BuildFile(Head(todo)) IN
  /\ todo # <<>>
  /\ pool_' = IF built THEN [pool_ EXCEPT ![Head(todo).name] = Known(Head(todo))] ELSE pool_
  /\ \/ Len(todo) = 1 /\ Returns(t, built)
     \/ /\ Len(todo) > 1
        /\ registering' = [registering EXCEPT ![t].todo = Tail(todo)]
        /\ UNCHANGED accepted

RegisterNext(t) ==
  LET todo == registering[t].todo  built == BuildFile(Head(todo)) IN
  /\ todo # <<>>
  /\ pool_' = IF built THEN [pool_ EXCEPT ![Head(todo).name] = Known(Head(todo))] ELSE pool_
  /\ \/ (~built \/ Len(todo) = 1) /\ Returns(t, built)
     \/ /\ built /\ Len(todo) > 1
        /\ registering' = [registering EXCEPT ![t].todo = Tail(todo)]
        /\ UNCHANGED accepted

ProtobufNext == \E t \in Registering :
  \/ \E s \in Schemas : \E f \in DOMAIN s : RegisterMessage(t, s, f) \/ RegisterFile(t, s, f)
  \/ RegisterNext(t)

-----------------------------------------------------------------------------
(***************************************************************************)
(* What RegisterMessage accepted, whatever versions of the files other     *)
(* threads register in between: every file of the ProtoDesc is in the pool *)
(* as it was sent and with all it imports, a message of its type can be    *)
(* generated, and, unless the type is compiled in, GetDescriptorString     *)
(* sends on the very ProtoDesc that was received.                          *)
(***************************************************************************)
RegisteredResolves ==
  \A d \in accepted :
    /\ \A i \in DOMAIN d : /\ pool_[d[i].name] = Known(d[i])
                           /\ \A j \in DOMAIN d[i].dependencies :
                                FindMessageTypeByName(d[i].dependencies[j])
    /\ LET f == Last(d).name IN
       /\ GenerateMessageByType(f) # NoFile
       /\ f \in DOMAIN Generated \/ Len(d) = 1 \/ GetDescriptorString(f) = d
=============================================================================
