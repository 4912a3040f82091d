----------------------------- MODULE ImapSession -----------------------------
(***************************************************************************)
(* IMAP::Session (imap/session.cpp) on the Maildir of one account, next    *)
(* to MailDir::deliver (storage/maildir.cpp) which fills it.  The port 143 *)
(* and port 993 listeners and the two SMTP listeners run in threads of     *)
(* their own and share nothing but the file system.                        *)
(*                                                                         *)
(* A file is [box, dir, name, flags, msg]: the mailbox, its cur/ or new/   *)
(* subdirectory, the file name up to ":2,", the flag characters after it,  *)
(* and the message the file holds.  A session knows a file by what it read *)
(* once: its MessageMeta (entry) keeps the file name, the flag string it   *)
(* answers with, and in_cur; it is never read again.  The entry's seq is   *)
(* its position in messages_, its uuid is the second in its name.          *)
(*                                                                         *)
(* A flag string is the sequence of its flag names and blanks, because     *)
(* STORE edits it by substring.  A command that is refused for its state   *)
(* or syntax, and one that only answers (CAPABILITY, LIST, LSUB, STATUS,   *)
(* UID SEARCH, SUBSCRIBE), changes nothing here.                           *)
(***************************************************************************)
EXTENDS Integers, FiniteSets, SequencesExt

CONSTANTS
    Sessions,     \* IMAP connections to the account
    Threads,      \* threads that deliver mail to it
    Folders,      \* mailboxes other than INBOX that the clients name
    Standard,     \* those ensure_standard_folders creates
    Commands,     \* [Sessions -> set of commands the client sends]
    SequenceSets, \* arguments of FETCH and STORE: sequences of <<lo, hi>>
    FlagArgs,     \* flag lists of STORE
    AppendArgs,   \* flag lists of APPEND
    Sizes,        \* message sizes in bytes, delivered or announced
    UsecPerSec,   \* clock readings in a second
    MaxNow,       \* bound on the clock
    MaxMail,      \* bound on messages delivered or appended
    MaxRestarts,  \* bound on restarts of the process
    MaxCommands,  \* bound on command lines
    MaxFlagLen    \* bound on the length of a flag string

Flags == {"Seen", "Deleted"}
Mailboxes == {"INBOX"} \cup Folders
Star == 1000      \* "*" in a sequence set: clamped to the last message

ASSUME Bounds ==
    /\ UsecPerSec \in Nat \ {0} /\ MaxNow \in Nat /\ MaxMail \in Nat
    /\ MaxRestarts \in Nat /\ MaxCommands \in Nat /\ MaxFlagLen \in Nat
    /\ Standard \subseteq Folders /\ "INBOX" \notin Folders
    /\ Sizes \subseteq Nat /\ MaxMail < Star

VARIABLES
    disk,         \* the files of the account in cur/ and new/
    tmp,          \* the files of INBOX's tmp/: [name, msg]
    dirs,         \* mailboxes whose cur/, new/ and tmp/ exist
    now,          \* the clock, in its own resolution
    append_seq,   \* Session::append_seq_, shared by the process
    sess,         \* [Sessions -> session]
    dlv,          \* [Threads -> the delivery in progress]
    sent,         \* history: command lines so far
    lives,        \* history: restarts so far
    born,         \* history: for each message its name, life and clock
    marked,       \* history: messages a client asked to flag \Deleted
    clobbered,    \* history: <<m, n>> where m's file was overwritten by n's
    missed,       \* history: <<s, m>> where a SELECT overlooked m unexplained
    view          \* history: the messages each client was told of, in order

mailVars == <<disk, tmp, dirs, born, clobbered>>
histVars == <<lives, marked, missed>>
vars == <<disk, tmp, dirs, now, append_seq, sess, dlv, sent, lives, born,
          marked, clobbered, missed, view>>

None == [name |-> "none"]
NoLiteral == [pending |-> FALSE, remaining |-> 0, box |-> "", flags |-> <<>>]

\* A connected session.
Fresh ==
    [state |-> "NotAuthenticated", auth_pending |-> FALSE, box |-> "",
     ro |-> FALSE, messages |-> <<>>, literal |-> NoLiteral, load |-> None]

Init ==
    /\ disk = {} /\ tmp = {} /\ dirs = {} /\ now = 0 /\ append_seq = 0
    /\ sess = [s \in Sessions |-> Fresh]
    /\ dlv = [d \in Threads |-> None]
    /\ sent = 0 /\ lives = 0 /\ born = <<>> /\ marked = {} /\ clobbered = {}
    /\ missed = {} /\ view = [s \in Sessions |-> <<>>]

-----------------------------------------------------------------------------
(* Files *)

SamePath(f, g) ==
    f.box = g.box /\ f.dir = g.dir /\ f.name = g.name /\ f.flags = g.flags

\* The file at a path, as a set of at most one.
At(p) == {f \in disk : SamePath(f, p)}

\* rename and ofstream put f where they put it, whatever was there.
Put(files, f) == {g \in files : ~SamePath(g, f)} \cup {f}
Overwrites(files, f) == {<<g.msg, f.msg>> : g \in {h \in files : SamePath(h, f)}}

\* rename(2) of the file f to the path of g.
Rename(files, f, g) == Put(files \ {f}, [g EXCEPT !.msg = f.msg])

\* mkdir of the mailbox's directories; a folder is a directory inside the
\* account's own, which only INBOX's first message creates.
ensure_mailbox_dirs(m) ==
    IF m = "INBOX" \/ "INBOX" \in dirs THEN dirs \cup {m} ELSE dirs

ensure_standard_folders ==
    IF "INBOX" \in dirs THEN dirs \cup Standard ELSE dirs

\* The message's file name up to ":2,": a delivery writes the second, the
\* microsecond and the size, an APPEND the second and a counter.
Second == now \div UsecPerSec
unique_filename(size) ==
    [sec |-> Second, kind |-> "deliver", n |-> <<now % UsecPerSec, size>>]
append_filename == [sec |-> Second, kind |-> "append", n |-> <<append_seq, 0>>]

uuid_from_file(name) == name.sec

-----------------------------------------------------------------------------
(* Flag strings *)

Has(flags, f) == f \in ToSet(flags)

\* The characters the file name carries for a flag string.
flag_chars(flags) == {f \in Flags : Has(flags, f)}

\* The flag string a file name is read as.
flags_from_file_Swapped(chars) ==
    (IF "Deleted" \in chars THEN <<"Seen">> ELSE <<>>)
    \o (IF chars = Flags THEN <<" ">> ELSE <<>>)
    \o (IF "Seen" \in chars THEN <<"Deleted">> ELSE <<>>)

flags_from_file(chars) ==
    (IF "Seen" \in chars THEN <<"Seen">> ELSE <<>>)
    \o (IF chars = Flags THEN <<" ">> ELSE <<>>)
    \o (IF "Deleted" \in chars THEN <<"Deleted">> ELSE <<>>)

\* std::string::find of arg in flags, 0 when there is none.
FindIn(flags, arg) ==
    IF \E i \in 1..(Len(flags) + 1 - Len(arg)) :
          SubSeq(flags, i, i + Len(arg) - 1) = arg
    THEN CHOOSE i \in 1..(Len(flags) + 1 - Len(arg)) :
          /\ SubSeq(flags, i, i + Len(arg) - 1) = arg
          /\ \A j \in 1..(i - 1) : SubSeq(flags, j, j + Len(arg) - 1) # arg
    ELSE 0

\* What STORE makes of an entry's flag string.
StoredFlags(flags, op, arg) ==
    CASE op = "FLAGS" -> arg
      [] op = "+FLAGS" -> IF FindIn(flags, arg) # 0 THEN flags
                          ELSE IF flags = <<>> THEN arg
                          ELSE flags \o <<" ">> \o arg
      [] op = "-FLAGS" -> IF FindIn(flags, arg) = 0 THEN flags
                          ELSE ReplaceSubSeqAt(FindIn(flags, arg), <<>>, arg, flags)

-----------------------------------------------------------------------------
(* Entries *)

Entry(f) ==
    [name |-> f.name, chars |-> f.flags, flags |-> flags_from_file(f.flags),
     in_cur |-> f.dir = "cur", msg |-> f.msg]

\* Where a session whose selected mailbox is box looks for an entry's file.
message_path(box, e) ==
    [box |-> box, dir |-> IF e.in_cur THEN "cur" ELSE "new",
     name |-> e.name, flags |-> e.chars, msg |-> e.msg]

\* What FETCH BODY[] answers: the file's message, or nothing when the file
\* is not where the entry says.
read_blob_ByUuid(s, e) ==
    {f.msg : f \in {g \in disk : g.box = sess[s].box
                               /\ uuid_from_file(g.name) = uuid_from_file(e.name)}}
read_blob(s, e) == {f.msg : f \in At(message_path(sess[s].box, e))}

\* A sequence set against a mailbox of n messages.
ParseNum(x, n) == IF x > n THEN n ELSE x
parse_sequence_set(set, n) ==
    LET Between(lo, hi) == SelectSeq([i \in 1..n |-> i],
                                     LAMBDA i : lo <= i /\ i <= hi)
        One(r) == IF ParseNum(r[1], n) > ParseNum(r[2], n)
                  THEN Between(ParseNum(r[2], n), ParseNum(r[1], n))
                  ELSE Between(ParseNum(r[1], n), ParseNum(r[2], n))
    IN  FlattenSeq([k \in 1..Len(set) |-> One(set[k])])

\* messages_ after load_mailbox: by uuid, equal uuids in any order.
Sorted(q) == \A i, j \in 1..Len(q) :
    i < j => uuid_from_file(q[i].name) <= uuid_from_file(q[j].name)
Loadable(files) == {q \in SetToSeqs({Entry(f) : f \in files}) : Sorted(q)}

-----------------------------------------------------------------------------
(* Delivery: MailDir::deliver, writing tmp/ and then renaming into new/.    *)

\* unique_filename and the write to tmp/; the file is opened without O_EXCL,
\* so two threads that choose one name write one file.
DeliverWrite(d) ==
    /\ dlv[d] = None /\ Len(born) < MaxMail
    /\ \E size \in Sizes \ {0} :
         LET f == [name |-> unique_filename(size), msg |-> Len(born) + 1]
         IN  /\ tmp' = {g \in tmp : g.name # f.name} \cup {f}
             /\ clobbered' = clobbered \cup
                  {<<g.msg, f.msg>> : g \in {h \in tmp : h.name = f.name}}
             /\ dlv' = [dlv EXCEPT ![d] = f]
             /\ born' = Append(born, [name |-> f.name, life |-> lives, at |-> now])
    /\ dirs' = dirs \cup {"INBOX"}
    /\ UNCHANGED <<disk, now, append_seq, sess, view, histVars>>

\* rename(tmp, new); it fails when another delivery has taken the file.
DeliverRename(d) ==
    /\ dlv[d] # None
    /\ dlv' = [dlv EXCEPT ![d] = None]
    /\ LET mine == {g \in tmp : g.name = dlv[d].name}
           Dest(g) == [box |-> "INBOX", dir |-> "new", name |-> g.name,
                       flags |-> {}, msg |-> g.msg]
       IN  /\ tmp' = tmp \ mine
           /\ disk' = UNION {Put(disk, Dest(g)) : g \in mine}
                      \cup (IF mine = {} THEN disk ELSE {})
           /\ clobbered' = clobbered \cup UNION {Overwrites(disk, Dest(g)) : g \in mine}
    /\ UNCHANGED <<dirs, born, now, append_seq, sess, view, histVars>>

-----------------------------------------------------------------------------
(* The session's commands *)

\* process_line reaches the command: no literal or credentials are awaited
\* and the thread is not inside load_mailbox.
Takes(s, c) ==
    /\ c \in Commands[s]
    /\ sess[s].load = None /\ ~sess[s].auth_pending
    /\ sess[s].literal.remaining = 0

Open(s) == sess[s].state \in {"Authenticated", "Selected"}
Selected(s) == sess[s].state = "Selected"

\* LOGIN with credentials that CredentialStore::verify accepts.
Login(s) ==
    /\ Takes(s, "LOGIN") /\ sess[s].state = "NotAuthenticated"
    /\ sess' = [sess EXCEPT ![s].state = "Authenticated"]
    /\ dirs' = ensure_standard_folders
    /\ UNCHANGED <<disk, tmp, born, clobbered, now, append_seq, dlv, view, histVars>>

\* AUTHENTICATE PLAIN without an initial response: the next line is the
\* credentials, whatever it says.
Authenticate(s) ==
    /\ Takes(s, "AUTHENTICATE") /\ sess[s].state = "NotAuthenticated"
    /\ sess' = [sess EXCEPT ![s].auth_pending = TRUE]
    /\ UNCHANGED <<mailVars, now, append_seq, dlv, view, histVars>>

AuthLine(s) ==
    /\ sess[s].auth_pending
    /\ \E ok \in BOOLEAN :
         sess' = [sess EXCEPT ![s].auth_pending = FALSE,
                              ![s].state = IF ok THEN "Authenticated" ELSE @]
    /\ UNCHANGED <<mailVars, now, append_seq, dlv, view, histVars>>

Logout(s) ==
    /\ Takes(s, "LOGOUT") /\ sess[s].state # "Logout"
    /\ sess' = [sess EXCEPT ![s].state = "Logout"]
    /\ UNCHANGED <<mailVars, now, append_seq, dlv, view, histVars>>

\* SELECT and EXAMINE, as far as load_mailbox's first directory, cur/.
SelectCur(s) ==
    /\ Open(s)
    /\ \E m \in Mailboxes, ro \in BOOLEAN :
         /\ Takes(s, IF ro THEN "EXAMINE" ELSE "SELECT")
         /\ sess' = [sess EXCEPT ![s].messages = <<>>, ![s].load =
            [name |-> "load", box |-> m, ro |-> ro, moved |-> {},
             files |-> {f \in disk : f.box = m /\ f.dir = "cur"},
             there |-> {f.msg : f \in {g \in disk : g.box = m}}]]
    /\ view' = [view EXCEPT ![s] = <<>>]
    /\ UNCHANGED <<mailVars, now, append_seq, dlv, histVars>>

ReadNew(m) == {f \in disk : f.box = m /\ f.dir = "new"}

SelectNew(s) ==
    /\ sess[s].load # None
    /\ LET l == sess[s].load
           files == l.files \cup ReadNew(l.box)
           still == {f.msg : f \in {g \in disk : g.box = l.box}}
       IN  /\ \E q \in Loadable(files) :
                /\ sess' = [sess EXCEPT ![s].load = None, ![s].box = l.box,
                                        ![s].ro = l.ro, ![s].state = "Selected",
                                        ![s].messages = q]
                /\ view' = [view EXCEPT ![s] = [i \in DOMAIN q |-> q[i].msg]]
           /\ missed' = missed \cup {<<s, m>> : m \in
                 ((l.there \cap still) \ {f.msg : f \in files}) \ l.moved}
    /\ UNCHANGED <<mailVars, now, append_seq, dlv, lives, marked>>

\* incorporate_new: every file of INBOX's new/ moves to cur/ and becomes an
\* entry without flags, in the order readdir gives, whatever mailbox is
\* selected and read-only or not.
Incorporated(f) == [Entry([f EXCEPT !.dir = "cur"]) EXCEPT !.flags = <<>>]

MovedToCur(files) ==
    FoldLeft(LAMBDA d, f : Rename(d, f, [f EXCEPT !.dir = "cur"]), disk, SetToSeq(files))

incorporate_new(s) ==
    LET files == {f \in disk : f.box = "INBOX" /\ f.dir = "new"}
    IN  /\ disk' = MovedToCur(files)
        /\ clobbered' = clobbered \cup
              UNION {Overwrites(disk, [f EXCEPT !.dir = "cur"]) : f \in files}
        /\ \E q \in SetToSeqs(files) :
             sess' = [t \in Sessions |->
                IF t = s
                THEN [sess[s] EXCEPT !.messages =
                        @ \o [i \in DOMAIN q |-> Incorporated(q[i])]]
                ELSE IF sess[t].load = None THEN sess[t]
                ELSE [sess[t] EXCEPT !.load.moved = @ \cup {f.msg : f \in files}]]

\* NOOP and CHECK.
Noop(s) ==
    /\ Takes(s, "NOOP") /\ Selected(s)
    /\ incorporate_new(s)
    /\ UNCHANGED <<tmp, dirs, born, now, append_seq, dlv, view, histVars>>

\* FETCH BODY[]: \Seen is remembered, and never written to the file.
Fetch(s) ==
    /\ Takes(s, "FETCH") /\ Open(s) /\ ~sess[s].ro
    /\ \E set \in SequenceSets :
         LET seqs == ToSet(parse_sequence_set(set, Len(sess[s].messages)))
         IN  sess' = [sess EXCEPT ![s].messages =
               [i \in DOMAIN @ |->
                  IF i \in seqs /\ ~Has(@[i].flags, "Seen")
                  THEN [@[i] EXCEPT !.flags = @ \o <<" ", "Seen">>]
                  ELSE @[i]]]
    /\ UNCHANGED <<mailVars, now, append_seq, dlv, view, histVars>>

\* One turn of STORE's loop, on the list and the files so far: the flag
\* string, then the rename that persists it; a rename that fails leaves the
\* entry with its old file name.
StoreOne(st, i, op, arg, box) ==
    LET e == [st.list[i] EXCEPT !.flags = StoredFlags(@, op, arg)]
        r == [e EXCEPT !.chars = flag_chars(e.flags)]
        old == {f \in st.files : SamePath(f, message_path(box, e))}
        new == message_path(box, r)
    IN  IF r.chars = e.chars \/ old = {}
        THEN [st EXCEPT !.list[i] = e]
        ELSE LET f == CHOOSE g \in old : TRUE
             IN  [list |-> [st.list EXCEPT ![i] = r],
                  files |-> Rename(st.files, f, new),
                  lost |-> st.lost \cup Overwrites(st.files \ {f}, [new EXCEPT !.msg = f.msg])]

\* STORE, by sequence number or (as the code reads it) by UID.
Store(s) ==
    /\ Takes(s, "STORE") /\ Open(s) /\ ~sess[s].ro
    /\ \E set \in SequenceSets, op \in {"FLAGS", "+FLAGS", "-FLAGS"}, arg \in FlagArgs :
         LET seqs == parse_sequence_set(set, Len(sess[s].messages))
             end == FoldLeft(LAMBDA st, i : StoreOne(st, i, op, arg, sess[s].box),
                             [list |-> sess[s].messages, files |-> disk, lost |-> {}],
                             seqs)
         IN  /\ \A i \in DOMAIN end.list : Len(end.list[i].flags) <= MaxFlagLen
             /\ sess' = [sess EXCEPT ![s].messages = end.list]
             /\ disk' = end.files
             /\ clobbered' = clobbered \cup end.lost
             /\ marked' = IF op # "-FLAGS" /\ "Deleted" \in ToSet(arg)
                          THEN marked \cup {end.list[i].msg : i \in ToSet(seqs)}
                          ELSE marked
    /\ UNCHANGED <<tmp, dirs, born, now, append_seq, dlv, lives, missed, view>>

\* The entries EXPUNGE and CLOSE unlink.
Doomed(s) == {e \in ToSet(sess[s].messages) : Has(e.flags, "Deleted")}
Unlinked(s) == UNION {At(message_path(sess[s].box, e)) : e \in Doomed(s)}

\* The numbers EXPUNGE announces, each counted after the earlier removals.
ExpungeNumbers_AsListed(list) ==
    SelectSeq([i \in DOMAIN list |-> i], LAMBDA i : Has(list[i].flags, "Deleted"))
ExpungeNumbers(list) ==
    FoldLeft(LAMBDA st, e : IF Has(e.flags, "Deleted")
                            THEN [st EXCEPT !.said = Append(@, st.seq + 1)]
                            ELSE [st EXCEPT !.seq = @ + 1],
             [seq |-> 0, said |-> <<>>], list).said

\* What a client makes of the announced numbers.
Replay(list, numbers) ==
    FoldLeft(LAMBDA v, n : IF n <= Len(v) THEN RemoveAt(v, n) ELSE v, list, numbers)

Expunge(s) ==
    /\ Takes(s, "EXPUNGE") /\ Selected(s) /\ ~sess[s].ro
    /\ disk' = disk \ Unlinked(s)
    /\ sess' = [sess EXCEPT ![s].messages =
                  SelectSeq(@, LAMBDA e : ~Has(e.flags, "Deleted"))]
    /\ view' = [view EXCEPT ![s] = Replay(@, ExpungeNumbers(sess[s].messages))]
    /\ UNCHANGED <<tmp, dirs, born, clobbered, now, append_seq, dlv, histVars>>

\* CLOSE removes silently, unless the mailbox was opened by EXAMINE.
Close(s) ==
    /\ Takes(s, "CLOSE") /\ Selected(s)
    /\ disk' = IF sess[s].ro THEN disk ELSE disk \ Unlinked(s)
    /\ sess' = [sess EXCEPT ![s].messages = <<>>, ![s].box = "",
                            ![s].state = "Authenticated"]
    /\ view' = [view EXCEPT ![s] = <<>>]
    /\ UNCHANGED <<tmp, dirs, born, clobbered, now, append_seq, dlv, histVars>>

\* CREATE answers OK whether or not the directory came to be.
Create(s) ==
    /\ Takes(s, "CREATE") /\ Open(s)
    /\ \E m \in Folders : dirs' = ensure_mailbox_dirs(m)
    /\ UNCHANGED <<disk, tmp, born, clobbered, now, append_seq, sess, dlv, view, histVars>>

\* APPEND arms the literal reader.  A literal of size 0 never completes: it
\* stays armed, and the next APPEND replaces it.
ArmLiteral(s) ==
    /\ Takes(s, "APPEND") /\ Open(s)
    /\ \E m \in Mailboxes, fl \in AppendArgs, size \in Sizes :
         /\ sess' = [sess EXCEPT ![s].literal =
               IF size = 0 THEN [NoLiteral EXCEPT !.pending = TRUE]
               ELSE [pending |-> TRUE, remaining |-> size, box |-> m, flags |-> fl]]
         /\ dirs' = ensure_mailbox_dirs(m)
    /\ UNCHANGED <<disk, tmp, born, clobbered, now, append_seq, dlv, view, histVars>>

\* Bytes of the literal arrive; with the last of them complete_append writes
\* the file, in the process's own numbering.
NextAppendSeq_Stuck == append_seq
NextAppendSeq == append_seq + 1

LiteralBytes(s) ==
    /\ sess[s].literal.remaining > 0
    /\ \E take \in 1..sess[s].literal.remaining :
         LET lit == sess[s].literal
             f == [box |-> lit.box, dir |-> "cur", name |-> append_filename,
                   flags |-> flag_chars(lit.flags), msg |-> Len(born) + 1]
             made == ensure_mailbox_dirs(lit.box)
         IN  IF take < lit.remaining
             THEN /\ sess' = [sess EXCEPT ![s].literal.remaining = @ - take]
                  /\ UNCHANGED <<mailVars, append_seq, marked>>
             ELSE /\ Len(born) < MaxMail
                  /\ sess' = [sess EXCEPT ![s].literal = NoLiteral]
                  /\ append_seq' = NextAppendSeq
                  /\ dirs' = made
                  /\ UNCHANGED tmp
                  /\ \/ /\ lit.box \in made
                        /\ disk' = Put(disk, f)
                        /\ clobbered' = clobbered \cup Overwrites(disk, f)
                        /\ born' = Append(born, [name |-> f.name, life |-> lives,
                                                 at |-> now])
                        /\ marked' = IF "Deleted" \in f.flags
                                     THEN marked \cup {f.msg} ELSE marked
                     \/ /\ lit.box \notin made      \* NO: could not write
                        /\ UNCHANGED <<disk, clobbered, born, marked>>
    /\ UNCHANGED <<now, dlv, lives, missed, view>>

\* The connection ends and its session with it; the slot is a new client's.
Disconnect(s) ==
    /\ sess[s] # Fresh /\ sess[s].load = None /\ "DISCONNECT" \in Commands[s]
    /\ sess' = [sess EXCEPT ![s] = Fresh]
    /\ view' = [view EXCEPT ![s] = <<>>]
    /\ UNCHANGED <<mailVars, now, append_seq, dlv, histVars>>

-----------------------------------------------------------------------------
(* The process and the clock *)

\* A restart: sessions and deliveries in progress are gone, the counter of
\* complete_append starts again, and the pid may be the same (a container).
Restart ==
    /\ lives < MaxRestarts
    /\ lives' = lives + 1
    /\ sess' = [s \in Sessions |-> Fresh]
    /\ dlv' = [d \in Threads |-> None]
    /\ append_seq' = 0
    /\ view' = [s \in Sessions |-> <<>>]
    /\ UNCHANGED <<mailVars, now, marked, missed>>

Tick ==
    /\ now < MaxNow
    /\ now' = now + 1
    /\ UNCHANGED <<mailVars, append_seq, sess, dlv, view, histVars>>

\* The lines a client sends, of which a behaviour has at most MaxCommands.
Command(s) ==
    \/ Login(s) \/ Authenticate(s) \/ Logout(s) \/ SelectCur(s) \/ Noop(s)
    \/ Fetch(s) \/ Store(s) \/ Expunge(s) \/ Close(s) \/ Create(s) \/ ArmLiteral(s)

Next ==
    \/ /\ sent < MaxCommands
       /\ sent' = sent + 1
       /\ \E s \in Sessions : Command(s)
    \/ /\ UNCHANGED sent
       /\ \/ \E d \in Threads : DeliverWrite(d) \/ DeliverRename(d)
          \/ \E s \in Sessions :
                AuthLine(s) \/ SelectNew(s) \/ LiteralBytes(s) \/ Disconnect(s)
          \/ Restart
          \/ Tick

Spec == Init /\ [][Next]_vars

-----------------------------------------------------------------------------
(* Properties *)

Messages == 1..Len(born)
FilesOf(m) == {f \in disk : f.msg = m}

\* The two coincidences that give two messages one file name: deliveries of
\* one size in one microsecond, and APPENDs within one second that a restart
\* of the process separates.
Coincide(m, n) ==
    /\ born[m].name = born[n].name
    /\ born[m].name.kind = "deliver" => born[m].at = born[n].at
    /\ born[m].name.kind = "append" => born[m].life # born[n].life

\* FETCH BODY[] on an entry answers the message the entry was read from, or
\* nothing, and never another message, although other sessions rename and
\* remove files under it; the one exception is a coincidence of names.
BlobIsOwn ==
    \A s \in Sessions : \A i \in DOMAIN sess[s].messages :
        LET e == sess[s].messages[i]
        IN  \A n \in read_blob(s, e) : n = e.msg \/ Coincide(n, e.msg)

\* No message leaves the account unasked: when a step removes the last file
\* of a message, some client had asked for the message's \Deleted flag by
\* STORE or APPEND, or for one that shares its file name by coincidence, or
\* the file was overwritten.
RemovedWithConsent ==
    [][\A m \in Messages : FilesOf(m) # {} /\ FilesOf(m)' = {}
            => \/ m \in marked
               \/ \E p \in clobbered' : p[1] = m
               \/ \E n \in marked : Coincide(m, n)]_vars

\* Neither a delivery nor an APPEND overwrites a message, nor does a rename
\* of STORE or incorporate_new, except by such a coincidence: unique_filename
\* and append_seq_ exclude everything else.
ClobberNeedsCoincidence == \A p \in clobbered : Coincide(p[1], p[2])


\* The numbers of the untagged EXPUNGE answers are right: a client that
\* counts by them agrees with messages_ on every message it was told of,
\* although messages_ may have more, which NOOP and CHECK do not announce.
ClientCountsAlong ==
    \A s \in Sessions :
        IsPrefix(view[s], [i \in DOMAIN sess[s].messages |-> sess[s].messages[i].msg])

=============================================================================
