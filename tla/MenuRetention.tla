--------------------------- MODULE MenuRetention ---------------------------
(***************************************************************************)
(* Deleted menus and the images of menus.  A menu is deleted softly and    *)
(* can be restored for the time of its retention.  After that a nightly    *)
(* run moves its image to the trash of the bucket and deletes its row, if  *)
(* it was never ordered; of an ordered menu it deletes the options only.   *)
(*                                                                         *)
(* An image is uploaded to a temporary prefix of its own and copied to     *)
(* menu/ when a menu gets it.  Neither the bucket and the database, nor    *)
(* the reads of a run and its writes, are in one transaction.  A run names *)
(* menus by their ids and looks at no deletedAt again.  It holds a Redis   *)
(* lock, which it may lose without knowing.                                *)
(***************************************************************************)
EXTENDS Integers, FiniteSets

CONSTANTS
    Menus,      \* ids of rows
    Images,     \* ids of uploads
    Variants,   \* MENU_VARIANT_NAMES
    Stocks,     \* menus, uploads and objects to begin with
    Senders,    \* requests of owners and customers, each sent once
    Purgers,    \* instances of the server, as they run the nightly job
    Retention,  \* MENU_RETENTION_DAYS
    BatchSize,  \* MENU_PURGE_BATCH_SIZE
    MaxTime,    \* bound of the clock
    MaxFaults,  \* bound of the crashes, lost locks and failures of S3
    None,
    Invalid     \* an imageKey that parseMenuPrefix does not take

MenuRow == [row : {"absent", "here", "gone"},
            deletedAt : Nat \cup {None},
            imageKey : Images \cup {None, Invalid},
            ordered : BOOLEAN,   \* it has order items
            options : BOOLEAN]   \* it has option groups

ASSUME RetentionAssumption ==
    /\ Retention \in Nat \ {0}
    /\ BatchSize \in Nat \ {0}
    /\ MaxTime \in Nat
    /\ MaxFaults \in Nat
    /\ None \notin Images \cup {Invalid} \cup Nat \cup Purgers
    /\ Invalid \notin Images
    /\ \A s \in Stocks :
          /\ s.day \in 0 .. MaxTime
          /\ s.menu \in [Menus -> MenuRow]
          /\ s.tmp \in [Images -> {"new", "there", "expired"}]
          /\ s.bucket \subseteq Images \X Variants
          /\ \A m \in Menus :
                /\ s.menu[m].imageKey \in Images =>
                      {s.menu[m].imageKey} \X Variants \subseteq s.bucket
                /\ s.menu[m].row # "here" => ~s.menu[m].options

VARIABLES
    now,         \* in days
    menu,
    tmp,         \* "there": at the temporary prefix of the upload
    bucket,      \* objects <<image, variant>> under menu/
    trash,       \* the same under trash/
    lock,        \* holder of lock:menu-purge
    runs,        \* [Purgers -> the run under way]
    reqs,
    faults,
    revived,     \* history: menus deleted a second time when they were overdue
    trashedFor   \* history: <<m, k>>, an object of image k was trashed for menu m

db == <<menu, revived>>
s3 == <<tmp, bucket, trash, trashedFor>>
retentionVars == <<now, db, s3, lock, runs, reqs, faults>>

-----------------------------------------------------------------------------
Exists(m) == menu[m].row = "here"
Offered(m) == Exists(m) /\ menu[m].deletedAt = None

\* Mutated forms of definitions below.
RestorableForEver(m) == Exists(m) /\ menu[m].deletedAt # None
OrderedToo(m, cutoff) ==
    /\ RestorableForEver(m)
    /\ menu[m].deletedAt < cutoff
    /\ menu[m].imageKey # None
DeletesOnly(p, v) ==
    LET q == runs[p]
    IN  /\ q.pc = "trash" /\ v \in q.left
        /\ bucket' = bucket \ {<<q.k, v>>}
        /\ trashedFor' = trashedFor \cup {<<q.m, q.k>>}
        /\ runs' = [runs EXCEPT ![p].left = q.left \ {v}]
        /\ UNCHANGED <<now, db, tmp, trash, lock, reqs, faults>>
NotFoundFails(p, v) ==
    LET q == runs[p]
    IN  /\ q.pc = "trash" /\ v \in q.left
        /\ <<q.k, v>> \notin bucket
        /\ runs' = [runs EXCEPT ![p] =
               [pc |-> "reclaim", cutoff |-> q.cutoff, todo |-> q.todo]]
        /\ UNCHANGED <<now, db, s3, lock, reqs, faults>>

-----------------------------------------------------------------------------
RetentionCutoff == now - Retention

\* deletedAt: { lt: cutoff }
DeletedBefore(m, cutoff) ==
    /\ Exists(m)
    /\ menu[m].deletedAt # None
    /\ menu[m].deletedAt < cutoff

\* deletedAt: { gte: cutoff }
Restorable(m) ==
    /\ Exists(m)
    /\ menu[m].deletedAt # None
    /\ menu[m].deletedAt >= RetentionCutoff

\* orderBy deletedAt, take MENU_PURGE_BATCH_SIZE
Batches(S) ==
    {T \in SUBSET S :
        /\ Cardinality(T) <= BatchSize
        /\ T # S => Cardinality(T) = BatchSize
        /\ \A m \in T, n \in S \ T : menu[m].deletedAt <= menu[n].deletedAt}

HasImage(m, cutoff) ==
    DeletedBefore(m, cutoff) /\ menu[m].imageKey # None /\ ~menu[m].ordered

\* An unordered menu without its image, or an ordered one with options.
HasRows(m, cutoff) ==
    /\ DeletedBefore(m, cutoff)
    /\ \/ ~menu[m].ordered /\ menu[m].imageKey = None
       \/ menu[m].ordered /\ menu[m].options

ObjectsOf(k) == {k} \X Variants

-----------------------------------------------------------------------------
New(k) == [row |-> "here", deletedAt |-> None, imageKey |-> k,
           ordered |-> FALSE, options |-> FALSE]

Asleep == [pc |-> "idle"]
Ready == [pc |-> "ready"]
Done == [pc |-> "done"]

RetentionInit ==
    /\ \E s \in Stocks :
          now = s.day /\ menu = s.menu /\ tmp = s.tmp /\ bucket = s.bucket
    /\ trash = {}
    /\ lock = None
    /\ runs = [p \in Purgers |-> Asleep]
    /\ reqs = [r \in Senders |-> Ready]
    /\ faults = 0
    /\ revived = {} /\ trashedFor = {}

Becomes(r, q) == reqs' = [reqs EXCEPT ![r] = q]
Runs(p, q) == runs' = [runs EXCEPT ![p] = q]

\* Days pass; an order is placed within one.
Tick ==
    /\ now < MaxTime
    /\ \A r \in Senders : reqs[r].pc # "ordering"
    /\ now' = now + 1
    /\ UNCHANGED <<db, s3, lock, runs, reqs, faults>>

-----------------------------------------------------------------------------
\* The owner's requests.

\* saveImage: the key, a new one, is told only when all variants are put.
Upload(k) ==
    /\ tmp[k] = "new"
    /\ tmp' = [tmp EXCEPT ![k] = "there"]
    /\ UNCHANGED <<now, db, bucket, trash, trashedFor, lock, runs, reqs, faults>>

\* The lifecycle rule of the bucket.
TmpExpires(k) ==
    /\ tmp[k] = "there"
    /\ tmp' = [tmp EXCEPT ![k] = "expired"]
    /\ UNCHANGED <<now, db, bucket, trash, trashedFor, lock, runs, reqs, faults>>

Promotes(r, target) ==
    /\ reqs[r].pc = "ready"
    /\ \E k \in Images :
          /\ tmp[k] # "new"
          /\ Becomes(r, [pc |-> "promoting", k |-> k, target |-> target, left |-> Variants])
    /\ UNCHANGED <<now, db, s3, lock, runs, faults>>

CreateMenu(r) == Promotes(r, None)

\* A deleted menu can be patched, too.
PatchImage(r) == \E m \in Menus : Exists(m) /\ Promotes(r, m)

\* promoteMenuImage copies the variants side by side.
CopyToMenu(r, v) ==
    LET q == reqs[r]
    IN  /\ q.pc = "promoting" /\ v \in q.left
        /\ \/ /\ tmp[q.k] = "there"
              /\ bucket' = bucket \cup {<<q.k, v>>}
              /\ Becomes(r, [q EXCEPT !.left = q.left \ {v}])
           \/ /\ tmp[q.k] = "expired"   \* NoSuchKey
              /\ Becomes(r, Done)
              /\ UNCHANGED bucket
        /\ UNCHANGED <<now, db, tmp, trash, trashedFor, lock, runs, faults>>

\* The row gets the key when all its objects have been copied.
WriteImageKey(r) ==
    LET q == reqs[r]
    IN  /\ q.pc = "promoting" /\ q.left = {}
        /\ \/ /\ q.target = None
              /\ \E m \in Menus :
                    menu[m].row = "absent" /\ menu' = [menu EXCEPT ![m] = New(q.k)]
           \/ /\ q.target # None
              /\ \/ /\ Exists(q.target)
                    /\ menu' = [menu EXCEPT ![q.target].imageKey = q.k]
                 \/ ~Exists(q.target) /\ UNCHANGED menu
        /\ Becomes(r, Done)
        /\ UNCHANGED <<now, revived, s3, lock, runs, faults>>

Sends(r) ==
    /\ reqs[r].pc = "ready"
    /\ Becomes(r, Done)
    /\ UNCHANGED <<now, s3, lock, runs, faults>>

\* imageKey: null
RemoveImage(r) ==
    /\ Sends(r)
    /\ \E m \in Menus : Exists(m) /\ menu' = [menu EXCEPT ![m].imageKey = None]
    /\ UNCHANGED revived

\* A deleted menu is given none.
AddOption(r) ==
    /\ Sends(r)
    /\ \E m \in Menus : Offered(m) /\ menu' = [menu EXCEPT ![m].options = TRUE]
    /\ UNCHANGED revived

\* A deleted menu can be deleted again, and is deleted from now on.
SoftDeleteMenu(r) ==
    /\ Sends(r)
    /\ \E m \in Menus :
          /\ Exists(m)
          /\ menu' = [menu EXCEPT ![m].deletedAt = now]
          /\ revived' = revived \cup {n \in {m} : DeletedBefore(n, RetentionCutoff)}

RestoreMenu(r) ==
    /\ Sends(r)
    /\ \E m \in Menus : Restorable(m) /\ menu' = [menu EXCEPT ![m].deletedAt = None]
    /\ UNCHANGED revived

\* An order: the menu is read as live, and later an item is inserted for it.
ReadMenu(r) ==
    /\ reqs[r].pc = "ready"
    /\ \E m \in Menus : Offered(m) /\ Becomes(r, [pc |-> "ordering", m |-> m])
    /\ UNCHANGED <<now, db, s3, lock, runs, faults>>

\* The foreign key refuses an item of a menu that is gone.
InsertItem(r) ==
    LET m == reqs[r].m
    IN  /\ reqs[r].pc = "ordering"
        /\ \/ Exists(m) /\ menu' = [menu EXCEPT ![m].ordered = TRUE]
           \/ ~Exists(m) /\ UNCHANGED menu
        /\ Becomes(r, Done)
        /\ UNCHANGED <<now, revived, s3, lock, runs, faults>>

-----------------------------------------------------------------------------
\* The nightly run.

\* The lock, and stage 1: the images, each with the menu to take it from.
StartRun(p) ==
    /\ runs[p].pc = "idle"
    /\ lock = None
    /\ lock' = p
    /\ \E T \in Batches({m \in Menus : HasImage(m, RetentionCutoff)}) :
          Runs(p, [pc |-> "reclaim", cutoff |-> RetentionCutoff,
                   todo |-> {<<m, menu[m].imageKey>> : m \in T}])
    /\ UNCHANGED <<now, db, s3, reqs, faults>>

Reclaim(q, todo) == [pc |-> "reclaim", cutoff |-> q.cutoff, todo |-> todo]

\* Whatever key the row has by now; a row that is gone is one more failure.
Forget(m) == menu' = IF Exists(m) THEN [menu EXCEPT ![m].imageKey = None] ELSE menu

DiscardKey(p) ==
    LET q == runs[p]
    IN  /\ q.pc = "reclaim"
        /\ \E t \in q.todo :
              /\ t[2] = Invalid
              /\ Forget(t[1])
              /\ Runs(p, Reclaim(q, q.todo \ {t}))
        /\ UNCHANGED <<now, revived, s3, lock, reqs, faults>>

TrashMenuImage(p) ==
    LET q == runs[p]
    IN  /\ q.pc = "reclaim"
        /\ \E t \in q.todo :
              /\ t[2] \in Images
              /\ Runs(p, [pc |-> "trash", cutoff |-> q.cutoff, todo |-> q.todo \ {t},
                          m |-> t[1], k |-> t[2], left |-> Variants, copied |-> {}])
        /\ UNCHANGED <<now, db, s3, lock, reqs, faults>>

CopyToTrash(p, v) ==
    LET q == runs[p]
    IN  /\ q.pc = "trash" /\ v \in q.left
        /\ <<q.k, v>> \in bucket
        /\ trash' = trash \cup {<<q.k, v>>}
        /\ Runs(p, [q EXCEPT !.left = q.left \ {v}, !.copied = q.copied \cup {v}])
        /\ UNCHANGED <<now, db, tmp, bucket, trashedFor, lock, reqs, faults>>

\* NoSuchKey: an earlier run has moved it.
SkipVariant(p, v) ==
    LET q == runs[p]
    IN  /\ q.pc = "trash" /\ v \in q.left
        /\ <<q.k, v>> \notin bucket
        /\ Runs(p, [q EXCEPT !.left = q.left \ {v}])
        /\ UNCHANGED <<now, db, s3, lock, reqs, faults>>

DeleteSource(p, v) ==
    LET q == runs[p]
    IN  /\ q.pc = "trash" /\ v \in q.copied
        /\ bucket' = bucket \ {<<q.k, v>>}
        /\ trashedFor' = trashedFor \cup {<<q.m, q.k>>}
        /\ Runs(p, [q EXCEPT !.copied = q.copied \ {v}])
        /\ UNCHANGED <<now, db, tmp, trash, lock, reqs, faults>>

\* Another error of S3: the run goes on with the next menu.
TrashFails(p) ==
    LET q == runs[p]
    IN  /\ q.pc = "trash"
        /\ q.left \cup q.copied # {}
        /\ faults < MaxFaults
        /\ faults' = faults + 1
        /\ Runs(p, Reclaim(q, q.todo))
        /\ UNCHANGED <<now, db, s3, lock, reqs>>

ForgetKey(p) ==
    LET q == runs[p]
    IN  /\ q.pc = "trash" /\ q.left = {} /\ q.copied = {}
        /\ Forget(q.m)
        /\ Runs(p, Reclaim(q, q.todo))
        /\ UNCHANGED <<now, revived, s3, lock, reqs, faults>>

Finish(p) ==
    /\ Runs(p, Asleep)
    /\ lock' = IF lock = p THEN None ELSE lock

\* A run that has lost its lock may see the signal here, and nowhere else.
SeesSignal(p) ==
    /\ runs[p].pc = "reclaim" /\ runs[p].todo = {}
    /\ lock # p
    /\ Finish(p)
    /\ UNCHANGED <<now, db, s3, reqs, faults>>

\* Stage 2: the rows.
ReadRows(p) ==
    LET q == runs[p]
    IN  /\ q.pc = "reclaim" /\ q.todo = {}
        /\ \E T \in Batches({m \in Menus : HasRows(m, q.cutoff)}) :
              \/ T = {} /\ Finish(p)
              \/ /\ T # {}
                 /\ Runs(p, [pc |-> "options", targets |-> T,
                             deletable |-> {m \in T : ~menu[m].ordered}])
                 /\ UNCHANGED lock
        /\ UNCHANGED <<now, db, s3, reqs, faults>>

DeleteOptions(p) ==
    LET q == runs[p]
    IN  /\ q.pc = "options"
        /\ menu' = [m \in Menus |->
               IF m \in q.targets THEN [menu[m] EXCEPT !.options = FALSE] ELSE menu[m]]
        /\ Runs(p, [pc |-> "menus", deletable |-> q.deletable])
        /\ UNCHANGED <<now, revived, s3, lock, reqs, faults>>

\* One statement: the foreign key of one order item fails it for all.
DeleteMenus(p) ==
    LET q == runs[p]
        refused == \E m \in q.deletable : Exists(m) /\ menu[m].ordered
    IN  /\ q.pc = "menus"
        /\ menu' = [m \in Menus |->
               IF m \in q.deletable /\ Exists(m) /\ ~refused
               THEN [menu[m] EXCEPT !.row = "gone", !.options = FALSE]
               ELSE menu[m]]
        /\ Finish(p)
        /\ UNCHANGED <<now, revived, s3, reqs, faults>>

Crash(p) ==
    /\ runs[p].pc # "idle"
    /\ faults < MaxFaults
    /\ faults' = faults + 1
    /\ Runs(p, Asleep)
    /\ UNCHANGED <<now, db, s3, lock, reqs>>

\* The lock of a run under way is renewed; that of a dead one expires.
LockExpires ==
    /\ lock # None
    /\ runs[lock].pc = "idle"
    /\ lock' = None
    /\ UNCHANGED <<now, db, s3, runs, reqs, faults>>

\* A renewal comes too late.
LoseLock ==
    /\ lock # None
    /\ runs[lock].pc # "idle"
    /\ faults < MaxFaults
    /\ faults' = faults + 1
    /\ lock' = None
    /\ UNCHANGED <<now, db, s3, runs, reqs>>

-----------------------------------------------------------------------------
Request(r) ==
    \/ RemoveImage(r) \/ AddOption(r) \/ SoftDeleteMenu(r) \/ RestoreMenu(r)
    \/ CreateMenu(r) \/ PatchImage(r) \/ WriteImageKey(r)
    \/ \E v \in Variants : CopyToMenu(r, v)
    \/ ReadMenu(r) \/ InsertItem(r)

PurgeStep(p) ==
    \/ DiscardKey(p) \/ TrashMenuImage(p)
    \/ \E v \in Variants : CopyToTrash(p, v) \/ SkipVariant(p, v) \/ DeleteSource(p, v)
    \/ ForgetKey(p) \/ SeesSignal(p)
    \/ ReadRows(p) \/ DeleteOptions(p) \/ DeleteMenus(p)

RetentionNext ==
    \/ Tick
    \/ \E k \in Images : Upload(k) \/ TmpExpires(k)
    \/ \E r \in Senders : Request(r)
    \/ \E p \in Purgers : StartRun(p) \/ PurgeStep(p) \/ TrashFails(p) \/ Crash(p)
    \/ LockExpires \/ LoseLock

\* The job runs every night, a run that is not dead goes on, and a lock that is
\* not renewed expires.
Fairness ==
    /\ \A p \in Purgers : WF_retentionVars(StartRun(p)) /\ WF_retentionVars(PurgeStep(p))
    /\ WF_retentionVars(LockExpires)

RetentionSpec == RetentionInit /\ [][RetentionNext]_retentionVars /\ Fairness

-----------------------------------------------------------------------------
RetentionTypeOK ==
    /\ now \in 0 .. MaxTime
    /\ menu \in [Menus -> MenuRow]
    /\ tmp \in [Images -> {"new", "there", "expired"}]
    /\ bucket \cup trash \subseteq Images \X Variants
    /\ lock \in Purgers \cup {None}
    /\ faults \in 0 .. MaxFaults
    /\ revived \subseteq Menus
    /\ trashedFor \subseteq Menus \X Images

Overdue(m) == DeletedBefore(m, RetentionCutoff)

\* The list of deleted menus promises that they can be restored until their
\* retention ends, and an ordered menu keeps its image for good.  So a menu that
\* is live, restorable or ordered has every object of its image, unless it was
\* deleted a second time when it was overdue, or another menu got the same
\* upload and its image was moved to the trash for that one.
ImagesStand ==
    \A m \in Menus \ revived :
        LET k == menu[m].imageKey
        IN  /\ Exists(m) /\ k \in Images
            /\ ~Overdue(m) \/ menu[m].ordered
            => \/ ObjectsOf(k) \subseteq bucket
               \/ \E n \in Menus \ {m} : <<n, k>> \in trashedFor

\* An object is copied to the trash before it is deleted, whichever runs are
\* under way and wherever they die: what a row has ever referred to can be found.
NothingLost ==
    \A m \in Menus :
        menu[m].imageKey \in Images =>
            ObjectsOf(menu[m].imageKey) \subseteq bucket \cup trash

\* A run writes by ids what it has read before.  Still it takes the row or the
\* options from an overdue menu only, unless that was deleted a second time.
OnlyOverdueLeave ==
    [][\A m \in Menus \ revived :
          (menu[m].row = "here" /\ menu'[m].row = "gone")
              \/ (menu[m].options /\ ~menu'[m].options)
                  => Overdue(m)]_retentionVars

\* Every menu that stays overdue without an order is deleted one night, whatever
\* crash, lost lock or failure of S3 an earlier night has met on the way.
OverdueIsPurged ==
    \A m \in Menus : ~<>[](Overdue(m) /\ ~menu[m].ordered)

=============================================================================
