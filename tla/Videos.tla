-------------------------------- MODULE Videos --------------------------------
(***************************************************************************)
(* baseapp_cloudflare_stream_field: a model field that holds what Cloudflare *)
(* says of a video, and the tasks that follow the video until it is ready,   *)
(* trim it, delete the original and ask for a download.  A task is a step    *)
(* for each call to Cloudflare, to the broker or to the database, and no     *)
(* lock keeps others out between them.                                       *)
(***************************************************************************)
EXTENDS Integers, FiniteSets, TLC

CONSTANTS
  MaxVideos,    \* videos there can be at Cloudflare
  MaxRetries,   \* 1000 in the code
  MaxForms,     \* uploads and changes in the admin
  Slot,         \* tasks there can be at a time
  Trim,         \* CLOUDFLARE_VIDEO_AUTOMATIC_TRIM
  Downloadable, \* the field's downloadable
  None, Gone

VARIABLES
  cloud,  \* cloud[v]: the video v as Cloudflare has it; None before it exists.  History: whole
          \* says that no clip was made, Cloudflare refused or the video was ready when saved
  field,  \* what the row holds: a video's data, None, or Gone when the row is deleted
  task,   \* task[i]: a task or a deletion that is queued or runs, or None
  form,   \* a form in the admin that shows a video or has uploaded one, or None
  forms,
  lost    \* history: a task gave up or died, or saved over a field changed since it read it

vars == <<cloud, field, task, form, forms, lost>>

Video == 1..MaxVideos
States == {"queued", "ready", "toolong"}

TypeOK ==
  /\ \A v \in Video : cloud[v] \in {None, Gone} \/ cloud[v].state \in States
  /\ field \in {None, Gone} \/ field.uid \in Video
  /\ forms \in 0..MaxForms /\ lost \in BOOLEAN
  /\ \A i \in Slot : task[i] = None \/ task[i].retries \in 1..MaxRetries

Exists(v) == cloud[v] \notin {None, Gone}
Fresh == {v \in Video : cloud[v] = None}
Next1 == CHOOSE v \in Fresh : \A w \in Fresh : v <= w
Holds == field \notin {None, Gone}

\* StreamClient.get_video_data; it is None for a video that is not there.
get_video_data(v) ==
  IF Exists(v) THEN [uid |-> v, state |-> cloud[v].state, clipped |-> cloud[v].from # None,
                     url |-> cloud[v].url]
  ELSE None

\* StreamClient.delete_video_data.
delete_video_data(v) == cloud' = [cloud EXCEPT ![v] = IF @ = None THEN None ELSE Gone]

New(kind, uid, old) ==
  [kind |-> kind, uid |-> uid, old |-> old, retries |-> 1, at |-> "queued", read |-> None,
   value |-> None]

\* The tasks ts with each of the new ones in a slot of its own.
Queue(ts, new) ==
  LET free == {i \in Slot : ts[i] = None}
  IN  {[i \in Slot |-> IF \E n \in new : place[n] = i
                       THEN CHOOSE n \in new : place[n] = i ELSE ts[i]] :
       place \in {f \in [new -> free] : \A m, n \in new : m # n => f[m] # f[n]}}

\* post_save: what the saved value still needs.
post_save(value) ==
  IF value = None THEN {}
  ELSE {n \in {New("refresh", 0, 0), New("download", 0, 0)} :
          \/ n.kind = "refresh" /\ value.state # "ready"
          \/ n.kind = "download" /\ Downloadable /\ ~value.url}

\* A save with its post_save, where the tasks are ts; over says that it overwrites what
\* somebody else has put in the field.  A broker that is down loses the tasks.
Save(value, ts, over) ==
  /\ field' = value
  /\ \/ task' \in Queue(ts, post_save(value)) /\ lost' = (lost \/ over)
     \/ post_save(value) # {} /\ task' = ts /\ lost' = TRUE

-----------------------------------------------------------------------------
(* Cloudflare, and people. *)

Process(v) ==
  /\ Exists(v) /\ cloud[v].state = "queued"
  /\ \E s \in {"ready", "toolong"} : cloud' = [cloud EXCEPT ![v].state = s]
  /\ cloud[v].from # None => cloud'[v].state = "ready"
  /\ UNCHANGED <<field, task, form, forms, lost>>

\* A video is uploaded, in a form whose save is to come.
Upload ==
  /\ form = None /\ field # Gone /\ Fresh # {} /\ forms < MaxForms
  /\ forms' = forms + 1
  /\ cloud' = [cloud EXCEPT ![Next1] = [state |-> "queued", from |-> None, whole |-> FALSE,
                                        url |-> FALSE]]
  /\ form' = [uid |-> Next1, upload |-> TRUE, value |-> None, sent |-> FALSE]
  /\ UNCHANGED <<field, task, lost>>

\* A form shows the object.
OpenForm ==
  /\ form = None /\ Holds /\ forms < MaxForms
  /\ forms' = forms + 1
  /\ form' = [uid |-> field.uid, upload |-> FALSE, value |-> None, sent |-> FALSE]
  /\ UNCHANGED <<cloud, field, task, lost>>

\* The form is sent: CloudflareStreamAdminWidget asks for the data of its video,
value_from_datadict ==
  /\ form # None /\ form.sent = FALSE
  /\ form' = [form EXCEPT !.sent = TRUE, !.value = get_video_data(form.uid)]
  /\ UNCHANGED <<cloud, field, task, forms, lost>>

\* and the object is saved with it.
SaveForm ==
  /\ form # None /\ form.sent = TRUE /\ field # Gone
  /\ Save(form.value, task, ~form.upload /\ (~Holds \/ field.uid # form.uid))
  /\ cloud' = IF form.value # None /\ form.value.state = "ready" /\ Exists(form.uid)
              THEN [cloud EXCEPT ![form.uid].whole = TRUE] ELSE cloud
  /\ form' = None
  /\ UNCHANGED forms

\* Somebody deletes the object; it is read first.
Remove(i) ==
  /\ field # Gone /\ task[i] = None
  /\ task' = [task EXCEPT ![i] = [New("delete", IF Holds THEN field.uid ELSE 0, 0)
                                    EXCEPT !.at = "running"]]
  /\ UNCHANGED <<cloud, field, form, forms, lost>>

Doing(i, kind, at) == task[i] # None /\ task[i].kind = kind /\ task[i].at = at
At(i, at) == task' = [task EXCEPT ![i].at = at]
End(i) == task' = [task EXCEPT ![i] = None]

\* pre_delete deletes the video,
pre_delete(i) ==
  /\ Doing(i, "delete", "running")
  /\ IF task[i].uid = 0 THEN UNCHANGED cloud ELSE delete_video_data(task[i].uid)
  /\ At(i, "write")
  /\ UNCHANGED <<field, form, forms, lost>>

\* and then the row goes.
DeleteRow(i) ==
  /\ Doing(i, "delete", "write")
  /\ field' = Gone /\ form' = None
  /\ End(i)
  /\ UNCHANGED <<cloud, forms, lost>>

-----------------------------------------------------------------------------
(* The tasks. *)

\* A worker takes a task and reads the field.  Without a row or a value it dies.
Take(i) ==
  /\ task[i] # None /\ task[i].at = "queued"
  /\ IF task[i].kind = "original" \/ Holds
     THEN task' = [task EXCEPT ![i].at = "running", ![i].read = field]
     ELSE End(i)
  /\ UNCHANGED <<cloud, field, form, forms, lost>>

\* A task is lost, or ends with an error: its worker or the broker fails, or Cloudflare does
\* not answer or does not know the video.
Lose(i) ==
  /\ task[i] # None
  /\ End(i) /\ lost' = TRUE
  /\ UNCHANGED <<cloud, field, form, forms>>

\* apply_async of the same task, up to the limit.
Again(i) ==
  IF task[i].retries < MaxRetries
  THEN /\ task' = [task EXCEPT ![i].retries = @ + 1, ![i].at = "queued", ![i].read = None]
       /\ UNCHANGED lost
  ELSE End(i) /\ lost' = TRUE

\* save(update_fields): the field is overwritten with what the task has; the save of a deleted
\* row dies.
SaveField(i) ==
  /\ Doing(i, "refresh", "write") \/ Doing(i, "download", "write")
  /\ IF field = Gone THEN End(i) /\ UNCHANGED <<field, lost>>
     ELSE Save(task[i].value, [task EXCEPT ![i] = None], field # task[i].read)
  /\ UNCHANGED <<cloud, form, forms>>

-----------------------------------------------------------------------------
(* refresh_from_cloudflare. *)

SkipRefresh(i) ==
  /\ Doing(i, "refresh", "running") /\ task[i].read.state = "ready"
  /\ End(i)
  /\ UNCHANGED <<cloud, field, form, forms, lost>>

\* Cloudflare is asked: the video is not ready yet, or too long and the object is deleted with
\* it, or ready and, with automatic trimming, to be clipped.
Asked(i) == Doing(i, "refresh", "running") /\ task[i].read.state # "ready" /\ Exists(task[i].read.uid)

WaitRefresh(i) ==
  /\ Asked(i) /\ cloud[task[i].read.uid].state = "queued"
  /\ Again(i)
  /\ UNCHANGED <<cloud, field, form, forms>>

TooLong(i) ==
  /\ Asked(i) /\ cloud[task[i].read.uid].state = "toolong"
  /\ task' = [task EXCEPT ![i].kind = "delete", ![i].uid = task[i].read.uid]
  /\ UNCHANGED <<cloud, field, form, forms, lost>>

Ready(i) ==
  /\ Asked(i) /\ cloud[task[i].read.uid].state = "ready"
  /\ task' = [task EXCEPT ![i].value = get_video_data(task[i].read.uid),
                          ![i].at = IF Trim /\ cloud[task[i].read.uid].from = None
                                    THEN "clip" ELSE "write"]
  /\ UNCHANGED <<cloud, field, form, forms, lost>>

\* StreamClient.clip_video: another video, for the field to take, or nothing: Cloudflare
\* refuses, because the video is not longer than the clip or for any other reason.
ClipForgotten(v, c) == get_video_data(v)
Trimmed(v, c) == [uid |-> c, state |-> "queued", clipped |-> TRUE, url |-> FALSE]

clip_video(i) ==
  /\ Doing(i, "refresh", "clip") /\ Exists(task[i].read.uid) /\ Fresh # {}
  /\ cloud' = [cloud EXCEPT ![Next1] = [state |-> "queued", from |-> task[i].read.uid,
                                        whole |-> FALSE, url |-> FALSE]]
  /\ task' = [task EXCEPT ![i].value = Trimmed(task[i].read.uid, Next1), ![i].uid = Next1,
                          ![i].at = "send"]
  /\ UNCHANGED <<field, form, forms, lost>>

ClipRefused(i) ==
  /\ Doing(i, "refresh", "clip")
  /\ cloud' = IF Exists(task[i].read.uid) THEN [cloud EXCEPT ![task[i].read.uid].whole = TRUE]
              ELSE cloud
  /\ At(i, "write")
  /\ UNCHANGED <<field, form, forms, lost>>

\* The deletion of the original is queued, before the field leaves it.
Send(i) ==
  /\ Doing(i, "refresh", "send")
  /\ task' \in Queue([task EXCEPT ![i].at = "write"],
                     {New("original", task[i].uid, task[i].read.uid)})
  /\ UNCHANGED <<cloud, field, form, forms, lost>>

-----------------------------------------------------------------------------
(* delete_original_trimmed_video: once the clip is ready. *)

CheckClip(i) ==
  /\ Doing(i, "original", "running") /\ Exists(task[i].uid)
  /\ \/ cloud[task[i].uid].state = "ready" /\ At(i, "write") /\ UNCHANGED lost
     \/ cloud[task[i].uid].state # "ready" /\ Again(i)
  /\ UNCHANGED <<cloud, field, form, forms>>

DeleteOriginal(i) ==
  /\ Doing(i, "original", "write")
  /\ delete_video_data(task[i].old)
  /\ End(i)
  /\ UNCHANGED <<field, form, forms, lost>>

-----------------------------------------------------------------------------
(* generate_download_url. *)

WaitDownload(i) ==
  /\ Doing(i, "download", "running") /\ task[i].read.state # "ready"
  /\ Again(i)
  /\ UNCHANGED <<cloud, field, form, forms>>

SkipDownload(i) ==
  /\ Doing(i, "download", "running") /\ task[i].read.state = "ready" /\ task[i].read.url
  /\ End(i)
  /\ UNCHANGED <<cloud, field, form, forms, lost>>

\* A first try that a worker takes before the transaction of the save commits sees the value
\* before, and may end at once; a refresh waits five seconds.
EarlyDownload(i) ==
  /\ Doing(i, "download", "queued") /\ task[i].retries = 1 /\ Holds /\ field.state # "ready"
  /\ End(i)
  /\ UNCHANGED <<cloud, field, form, forms, lost>>

download_video(i) ==
  /\ Doing(i, "download", "running") /\ task[i].read.state = "ready" /\ ~task[i].read.url
  /\ Exists(task[i].read.uid)
  /\ task' = [task EXCEPT ![i].value = [task[i].read EXCEPT !.url = TRUE], ![i].at = "meta"]
  /\ UNCHANGED <<cloud, field, form, forms, lost>>

update_video_data(i) ==
  /\ Doing(i, "download", "meta")
  /\ cloud' = IF Exists(task[i].read.uid) THEN [cloud EXCEPT ![task[i].read.uid].url = TRUE]
              ELSE cloud
  /\ At(i, "write")
  /\ UNCHANGED <<field, form, forms, lost>>

-----------------------------------------------------------------------------
Init ==
  /\ cloud = [v \in Video |-> None] /\ field = None /\ task = [i \in Slot |-> None]
  /\ form = None /\ forms = 0 /\ lost = FALSE

Next ==
  \/ \E v \in Video : Process(v)
  \/ Upload \/ OpenForm \/ value_from_datadict \/ SaveForm
  \/ \E i \in Slot :
       \/ Remove(i) \/ pre_delete(i) \/ DeleteRow(i)
       \/ Take(i) \/ Lose(i) \/ SaveField(i)
       \/ SkipRefresh(i) \/ WaitRefresh(i) \/ TooLong(i) \/ Ready(i)
       \/ clip_video(i) \/ ClipRefused(i) \/ Send(i)
       \/ CheckClip(i) \/ DeleteOriginal(i)
       \/ WaitDownload(i) \/ SkipDownload(i) \/ EarlyDownload(i)
       \/ download_video(i) \/ update_video_data(i)

Spec == Init /\ [][Next]_vars

-----------------------------------------------------------------------------
\* The field's video may be gone already while the task that has clipped it is about to save
\* the clip, whose original another worker deletes first, and while the object is being
\* deleted.
Leaving(t) ==
  /\ t # None /\ t.kind = "refresh" /\ t.at = "write"
  /\ t.read.uid = field.uid /\ t.value.uid # field.uid
Deleting(t) == t # None /\ t.kind = "delete" /\ t.at = "write"

\* While no task saves over what another writer put in the field, and none dies, the field
\* never names a video that was deleted at Cloudflare, but for those moments.
NamesALivingVideo ==
  ~lost /\ Holds =>
    Exists(field.uid) \/ \E i \in Slot : Leaving(task[i]) \/ Deleting(task[i])

\* When no task is left the video is ready and has its download; and after a single upload,
\* which no form saved again, it is the only one left, and trimmed as the settings ask unless
\* Cloudflare refused or it was ready before the object was saved.
SettledIsComplete ==
  ~lost /\ (\A i \in Slot : task[i] = None) =>
    /\ Holds => /\ field.state = "ready" /\ (Downloadable => field.url)
    /\ Holds /\ forms = 1 => /\ {v \in Video : Exists(v)} = {field.uid}
                              /\ Trim => field.clipped \/ cloud[field.uid].whole

VideosConsistent == NamesALivingVideo /\ SettledIsComplete
==============================================================================
