------------------------------ MODULE NgeoConfig ------------------------------
(***************************************************************************)
(* The configuration of the server, ngeo.conf, which every process keeps   *)
(* in memory and reads again when the file is newer.  Requests change it   *)
(* setting by setting in memory and then write it; no lock is taken.  The  *)
(* address of the authorization server is kept in mapcache.xml instead,    *)
(* of which a synchronization of the layers keeps a copy to go back to.    *)
(*                                                                         *)
(* LayerConfig has what a synchronization does to the layers.              *)
(*                                                                         *)
(* Source: ngeo_browse_server/config/__init__.py,                          *)
(*         ngeo_browse_server/control/control/configuration.py,            *)
(*         ngeo_browse_server/control/views.py                             *)
(***************************************************************************)
EXTENDS Naturals, Sequences, SequencesExt

CONSTANTS Proc,        \* processes of the web server
          MaxRequests, \* requests (bound of the model)
          NotRead

\* Settings in the file, one for each section there is from the installation, and the
\* revision, whose section comes with the first synchronization.
Key == {"ingest", "log"}

\* The sections that the file may have.
Section == Key \cup {"revision"}

\* Elements of a request to change the configuration.
Element == Key \cup {"baseurl", "unknown"}

CONSTANT Changes       \* requests to change it, as sequences of elements

\* A configuration without elements, which only writes the file again, is left out.
ASSUME ConfigAssumption ==
  /\ MaxRequests \in Nat /\ \A S \in SUBSET Section : NotRead \notin [S -> Nat]
  /\ Changes \subseteq Seq(Element) \ { << >> }

\* What requests do, in this order: set the elements of a configuration, synchronize
\* the layers and set the revision, or read the configuration.
Requests == Changes \cup { << "layers", "revision" >>, << "get" >> }

VARIABLES conf,       \* ngeo.conf: a value for each setting it has
          mtime,      \* when it was last written
          baseurl,    \* the address in mapcache.xml
          instance,   \* _config_instance of each process, NotRead at first
          timestamp,  \* _last_config_timestamp
          confpc,     \* what each process does
          job,        \* its request: the rest of it, what is done, the value it sets
                      \*   (its number) and the copy of mapcache.xml
          requests,
          accepted,   \* history: values each setting may have
          marks       \* history: "overlap" of requests, a "torn" file was read or left

stored == <<conf, mtime, baseurl>>
memory == <<instance, timestamp>>
confvars == <<stored, memory, confpc, job, requests, accepted, marks>>

NoJob == [todo |-> <<>>, done |-> {}, value |-> 0, copy |-> 0]

Go(p, step) == confpc' = [confpc EXCEPT ![p] = step]
EndJob(p) == Go(p, "idle") /\ job' = [job EXCEPT ![p] = NoJob]

BeginRequest(p) ==
  /\ confpc[p] = "idle" /\ requests < MaxRequests
  /\ requests' = requests + 1
  /\ \E r \in Requests :
       job' = [job EXCEPT ![p] = [NoJob EXCEPT !.todo = r, !.value = requests + 1]]
  /\ Go(p, "next")
  /\ marks' = IF \E q \in Proc : confpc[q] # "idle" THEN marks \cup {"overlap"} ELSE marks
  /\ UNCHANGED <<stored, memory, accepted>>

\* What was done of a request that is refused may stay.
RefuseRequest(p) ==
  /\ EndJob(p)
  /\ accepted' = [ k \in DOMAIN accepted |->
                     accepted[k] \cup IF k \in job[p].done THEN {job[p].value} ELSE {} ]

\* Fault: what is in memory is used as long as there is something.
Loaded(p) == instance[p] # NotRead

\* get_ngeo_config
Fresh(p) == instance[p] # NotRead /\ timestamp[p] >= mtime

Now(p) == Head(job[p].todo)

\* The next element.  One that is not known, or has not all its parameters, is refused.
NextElement(p) ==
  /\ confpc[p] = "next" /\ job[p].todo # <<>>
  /\ \/ Now(p) = "unknown" /\ RefuseRequest(p)
     \/ /\ Now(p) # "unknown"
        /\ Go(p, IF Fresh(p) THEN "set" ELSE "load") /\ UNCHANGED <<job, accepted>>
  /\ UNCHANGED <<stored, memory, requests, marks>>

\* reset_ngeo_config reads the file, which another process may just have truncated,
Load(p) ==
  /\ confpc[p] = "load"
  /\ instance' = [instance EXCEPT ![p] = conf]
  /\ Go(p, "stamp")
  /\ marks' = IF DOMAIN conf = {} THEN marks \cup {"torn"} ELSE marks
  /\ UNCHANGED <<stored, timestamp, job, requests, accepted>>

\* and then looks how old it is.
Stamp(p) ==
  /\ confpc[p] = "stamp"
  /\ timestamp' = [timestamp EXCEPT ![p] = mtime]
  /\ Go(p, "set")
  /\ UNCHANGED <<stored, instance, job, requests, accepted, marks>>

Advance(p) ==
  /\ job' = [job EXCEPT ![p] = [job[p] EXCEPT !.todo = Tail(@), !.done = @ \cup {Now(p)}]]
  /\ Go(p, "next")

\* ngEOConfigConfigurator.set_values: a section that is not there is an error.
SetKey(p) ==
  /\ confpc[p] = "set" /\ Now(p) \in Key
  /\ IF Now(p) \in DOMAIN instance[p]
       THEN /\ instance' = [instance EXCEPT ![p] = [@ EXCEPT ![Now(p)] = job[p].value]]
            /\ Advance(p) /\ UNCHANGED accepted
       ELSE RefuseRequest(p) /\ UNCHANGED instance
  /\ UNCHANGED <<stored, timestamp, requests, marks>>

\* The revision: its section is added when it is not there.
SetRevision(p) ==
  /\ confpc[p] = "set" /\ Now(p) = "revision"
  /\ instance' = [instance EXCEPT ![p] =
                    [ k \in DOMAIN @ \cup {"revision"} |-> IF k = "revision" THEN job[p].value ELSE @[k] ]]
  /\ Advance(p)
  /\ UNCHANGED <<stored, timestamp, requests, accepted, marks>>

\* WebServerConfigurator.set_values: mapcache.xml is changed at once, under its lock,
\* which may not be had.  The path of the file is in the configuration.
SetBaseurl(p) ==
  /\ confpc[p] = "set" /\ Now(p) = "baseurl"
  /\ \/ /\ Key \subseteq DOMAIN instance[p]
        /\ baseurl' = job[p].value
        /\ Advance(p) /\ UNCHANGED accepted
     \/ RefuseRequest(p) /\ UNCHANGED baseurl
  /\ UNCHANGED <<conf, mtime, memory, requests, marks>>

\* The transaction of a synchronization begins with a copy of mapcache.xml.
CopyXml(p) ==
  /\ confpc[p] = "set" /\ Now(p) = "layers"
  /\ IF Key \subseteq DOMAIN instance[p]
       THEN job' = [job EXCEPT ![p].copy = baseurl] /\ Go(p, "layers") /\ UNCHANGED accepted
       ELSE RefuseRequest(p)
  /\ UNCHANGED <<stored, memory, requests, marks>>

\* It succeeds, or the copy is put back.
SyncLayers(p) ==
  /\ confpc[p] = "layers"
  /\ \/ Advance(p) /\ UNCHANGED <<baseurl, accepted>>
     \/ baseurl' = job[p].copy /\ RefuseRequest(p)
  /\ UNCHANGED <<conf, mtime, memory, requests, marks>>

GetConfiguration(p) ==
  /\ confpc[p] = "set" /\ Now(p) = "get"
  /\ EndJob(p)
  /\ UNCHANGED <<stored, memory, requests, accepted, marks>>

\* write_ngeo_config opens the file, which makes it empty,
OpenConf(p) ==
  /\ confpc[p] = "next" /\ job[p].todo = <<>>
  /\ conf' = << >> /\ mtime' = mtime + 1
  /\ Go(p, "write")
  /\ UNCHANGED <<baseurl, memory, job, requests, accepted, marks>>

\* What a file may tell when a text was written over another: the end of a longer one
\* stays behind it, and of two values for a setting the last counts.  (That a line may be
\* cut in two, and the file be refused by whoever reads it, is left out.)
Over(old, new) ==
  { [ k \in DOMAIN new \cup rest |-> IF k \in rest THEN old[k] ELSE new[k] ] :
      rest \in SUBSET DOMAIN old }

\* and writes what is in memory at its beginning, where another process that had opened
\* it too may have written meanwhile.
WriteConf(p) ==
  /\ confpc[p] = "write"
  /\ conf' \in Over(conf, instance[p]) /\ mtime' = mtime + 1
  /\ EndJob(p)
  /\ accepted' = [ k \in DOMAIN accepted |->
                     IF k \in job[p].done THEN {job[p].value} ELSE accepted[k] ]
  /\ UNCHANGED <<baseurl, memory, requests, marks>>

\* A process is restarted, or killed while it does something.
Restart(p) ==
  /\ confpc[p] # "idle" \/ instance[p] # NotRead
  /\ instance' = [instance EXCEPT ![p] = NotRead]
  /\ timestamp' = [timestamp EXCEPT ![p] = 0]
  /\ RefuseRequest(p)
  /\ marks' = IF confpc[p] = "write" THEN marks \cup {"torn"} ELSE marks
  /\ UNCHANGED <<stored, requests>>

ConfigDone == (\A p \in Proc : confpc[p] = "idle") /\ UNCHANGED confvars

ConfigInit ==
  /\ conf = [k \in Key |-> 0] /\ mtime = 1 /\ baseurl = 0
  /\ instance = [p \in Proc |-> NotRead] /\ timestamp = [p \in Proc |-> 0]
  /\ confpc = [p \in Proc |-> "idle"]
  /\ job = [p \in Proc |-> NoJob]
  /\ requests = 0 /\ marks = {}
  /\ accepted = [k \in Section \cup {"baseurl"} |-> {0}]

ConfigNext ==
  \/ ConfigDone
  \/ \E p \in Proc :
       \/ BeginRequest(p) \/ NextElement(p) \/ Load(p) \/ Stamp(p)
       \/ SetKey(p) \/ SetRevision(p) \/ SetBaseurl(p) \/ GetConfiguration(p)
       \/ CopyXml(p) \/ SyncLayers(p) \/ OpenConf(p) \/ WriteConf(p) \/ Restart(p)

ConfigSpec == ConfigInit /\ [][ConfigNext]_confvars

-----------------------------------------------------------------------------
(* Properties *)

\* Between requests no setting is missing in the file, unless a file that was just
\* opened for writing was read or left (config/__init__.py:60): a process that read one
\* believes it, and the next synchronization writes the revision alone.  And as long as
\* requests did not overlap, every setting has the value that was last accepted for it,
\* whichever process wrote it and whatever the others had in memory, or one of a request
\* since that was refused half way.
SettingsKept ==
  (\A p \in Proc : confpc[p] = "idle") /\ "torn" \notin marks =>
    /\ Key \subseteq DOMAIN conf
    /\ "overlap" \notin marks =>
         /\ baseurl \in accepted["baseurl"]
         /\ \A k \in DOMAIN conf : conf[k] \in accepted[k]
===============================================================================
