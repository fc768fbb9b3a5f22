--------------------------- MODULE GudDeviceProofs ---------------------------
(***************************************************************************)
(* Theorems about GudDevice, for every set of users and every number of    *)
(* opens.                                                                  *)
(***************************************************************************)
EXTENDS GudDevice, TLAPS

-----------------------------------------------------------------------------
(* The inductive invariant: what is held at each place of the hub thread,   *)
(* and of unload once it runs; where users may be meanwhile.                *)

XBuffers == IF xdisp THEN Buffers ELSE {}
Ready    == {"gud", "usb"} \cup XBuffers
Built    == Ready \cup {"drm"} \cup ModeConfig

\* Resources held before a row of probe, at an error label, and afterwards.
AtHub ==
  [gud        |-> {},
   usb        |-> {"gud"},
   endpoint   |-> {"gud", "usb"},
   descriptor |-> {"gud", "usb"},
   workmem    |-> {"gud", "usb"},
   scratch    |-> {"gud", "usb", "workmem"},
   bulk       |-> {"gud", "usb", "workmem", "scratch"},
   urb        |-> {"gud", "usb", "workmem", "scratch", "bulk"},
   drm        |-> Ready,
   config     |-> Ready \cup {"drm"},
   connector  |-> Ready \cup {"drm", "config"},
   pipe       |-> Ready \cup {"drm", "config", "connector"},
   register   |-> Built,
   err_bulk        |-> {"gud", "usb", "workmem", "scratch", "bulk"},
   err_scratch     |-> {"gud", "usb", "workmem", "scratch"},
   err_workmem     |-> {"gud", "usb", "workmem"},
   err_connector   |-> Ready \cup {"drm", "config"},
   err_pipe        |-> Ready \cup {"drm", "config", "connector"},
   err_mode_config |-> Built,
   err_unref       |-> Ready \cup {"drm"},
   err_free_xdisp  |-> Ready,
   err_put_usb     |-> {"gud", "usb"},
   failed     |-> {},
   intfdata   |-> Built \cup {"node"},
   cancel     |-> Built \cup {"node"},
   bound      |-> Built \cup {"node"},
   mark       |-> Built \cup {"node"},
   stop       |-> Built \cup {"node"},
   unplug     |-> Built,
   gone       |-> Built]

\* Resources held before a step of unload.
AtFini ==
  [u_node    |-> Built,
   u_config  |-> Built,
   u_buffers |-> Ready \cup {"drm"},
   u_usb     |-> {"gud", "usb", "drm"},
   u_drm     |-> {"drm"},
   done      |-> {}]

BufferRows == {"workmem", "scratch", "bulk", "urb", "err_bulk", "err_scratch", "err_workmem"}
UsedPlaces == {"intfdata", "cancel", "bound", "mark", "stop", "unplug", "gone"}

HeldInv ==
  /\ held = IF fini = "none" THEN AtHub[hub] ELSE AtFini[fini]
  /\ hub \in BufferRows => xdisp
  /\ fini # "none" => hub = "gone"

UsersInv ==
  /\ \A u \in Users : user[u] # "out" => hub \in UsedPlaces /\ fini = "none"
  /\ "node" \in held => hub \in UsedPlaces /\ fini = "none"
  /\ unplugged => hub = "gone"

DeviceInv == TypeOK /\ ~lost /\ HeldInv /\ UsersInv /\ NoMessageAfterMark

-----------------------------------------------------------------------------
\* The rows of the tables.
LEMMA Domains ==
  /\ DOMAIN Probe = {"gud", "usb", "endpoint", "descriptor", "workmem", "scratch",
                    "bulk", "urb", "drm", "config", "connector", "pipe", "register"}
  /\ DOMAIN Unwind = {"err_bulk", "err_scratch", "err_workmem", "err_connector",
                     "err_pipe", "err_mode_config", "err_unref", "err_free_xdisp",
                     "err_put_usb"}
  /\ DOMAIN Unload = {"u_node", "u_config", "u_buffers", "u_usb", "u_drm"}
  BY DEF Probe, GudProbe, BuffersInit, DrmInit, PipeInit, Unwind,
     BuffersUnwind, PipeUnwind, DrmUnwind, ProbeUnwind, Unload, Join

\* Where rows lead to.
LEMMA Places ==
  {"gud", "usb", "endpoint", "descriptor", "workmem", "scratch", "bulk", "urb", "drm",
   "config", "connector", "pipe", "register", "err_bulk", "err_scratch", "err_workmem",
   "err_connector", "err_pipe", "err_mode_config", "err_unref", "err_free_xdisp",
   "err_put_usb", "failed", "intfdata", "cancel", "bound", "mark", "stop", "unplug",
   "gone"} \subseteq HubPlaces
  BY Domains DEF HubPlaces

\* A row of probe, where buffers are taken only by the full-update variant, goes
\* from what is held before it to what is held after it; so does its failure.
LEMMA ProbeTable ==
  ASSUME NEW p \in DOMAIN Probe, p \in BufferRows => xdisp
  PROVE  /\ AtHub[Probe[p].next] = AtHub[p] \cup Probe[p].set
         /\ Probe[p].next \in BufferRows => xdisp
         /\ Probe[p].fail # "" => /\ AtHub[Probe[p].fail] = AtHub[p]
                                  /\ Probe[p].fail \in BufferRows => xdisp
                                  /\ Probe[p].fail \in HubPlaces
         /\ Probe[p].next \in HubPlaces /\ Probe[p].set \subseteq Resources
         /\ "node" \in Probe[p].set => Probe[p].next \in UsedPlaces
<1>1. CASE p = "gud"
  <2>1. Probe[p].set = {"gud"} /\ Probe[p].next = "usb"
        /\ Probe[p].fail = "failed"
    BY <1>1 DEF Probe, GudProbe, BuffersInit, DrmInit, PipeInit, Join, Row
  <2>2. /\ AtHub["gud"] = {}
        /\ AtHub["usb"] = {"gud"}
        /\ AtHub["failed"] = {}
    BY DEF AtHub
  <2>3. /\ Probe[p].next \in HubPlaces /\ Probe[p].set \subseteq Resources
        /\ Probe[p].fail # "" => Probe[p].fail \in HubPlaces
        /\ "node" \in Probe[p].set => Probe[p].next \in UsedPlaces
    BY <2>1, Places DEF Resources, Buffers, ModeConfig, UsedPlaces
  <2> QED  BY <1>1, <2>1, <2>2, <2>3 DEF BufferRows
<1>2. CASE p = "usb"
  <2>1. Probe[p].set = {"usb"} /\ Probe[p].next = "endpoint"
        /\ Probe[p].fail = ""
    BY <1>2 DEF Probe, GudProbe, BuffersInit, DrmInit, PipeInit, Join, Row
  <2>2. /\ AtHub["usb"] = {"gud"}
        /\ AtHub["endpoint"] = {"gud", "usb"}
    BY DEF AtHub
  <2>3. /\ Probe[p].next \in HubPlaces /\ Probe[p].set \subseteq Resources
        /\ Probe[p].fail # "" => Probe[p].fail \in HubPlaces
        /\ "node" \in Probe[p].set => Probe[p].next \in UsedPlaces
    BY <2>1, Places DEF Resources, Buffers, ModeConfig, UsedPlaces
  <2> QED  BY <1>2, <2>1, <2>2, <2>3 DEF BufferRows
<1>3. CASE p = "endpoint"
  <2>1. Probe[p].set = {} /\ Probe[p].next = "descriptor"
        /\ Probe[p].fail = "err_put_usb"
    BY <1>3 DEF Probe, GudProbe, BuffersInit, DrmInit, PipeInit, Join, Row
  <2>2. /\ AtHub["endpoint"] = {"gud", "usb"}
        /\ AtHub["descriptor"] = {"gud", "usb"}
        /\ AtHub["err_put_usb"] = {"gud", "usb"}
    BY DEF AtHub
  <2>3. /\ Probe[p].next \in HubPlaces /\ Probe[p].set \subseteq Resources
        /\ Probe[p].fail # "" => Probe[p].fail \in HubPlaces
        /\ "node" \in Probe[p].set => Probe[p].next \in UsedPlaces
    BY <2>1, Places DEF Resources, Buffers, ModeConfig, UsedPlaces
  <2> QED  BY <1>3, <2>1, <2>2, <2>3 DEF BufferRows
<1>4. CASE p = "descriptor"
  <2>1. Probe[p].set = {} /\ Probe[p].next = (IF xdisp THEN "workmem" ELSE "drm")
        /\ Probe[p].fail = "err_put_usb"
    BY <1>4 DEF Probe, GudProbe, BuffersInit, DrmInit, PipeInit, Join, Row
  <2>2. /\ AtHub["descriptor"] = {"gud", "usb"}
        /\ AtHub["workmem"] = {"gud", "usb"}
        /\ AtHub["drm"] = Ready
        /\ AtHub["err_put_usb"] = {"gud", "usb"}
    BY DEF AtHub
  <2>3. /\ Probe[p].next \in HubPlaces /\ Probe[p].set \subseteq Resources
        /\ Probe[p].fail # "" => Probe[p].fail \in HubPlaces
        /\ "node" \in Probe[p].set => Probe[p].next \in UsedPlaces
    BY <2>1, Places DEF Resources, Buffers, ModeConfig, UsedPlaces
  <2> QED  BY <1>4, <2>1, <2>2, <2>3 DEF BufferRows, Ready, XBuffers, Buffers
<1>5. CASE p = "workmem"
  <2>1. Probe[p].set = {"workmem"} /\ Probe[p].next = "scratch"
        /\ Probe[p].fail = "err_put_usb"
    BY <1>5 DEF Probe, GudProbe, BuffersInit, DrmInit, PipeInit, Join, Row
  <2>2. /\ AtHub["workmem"] = {"gud", "usb"}
        /\ AtHub["scratch"] = {"gud", "usb", "workmem"}
        /\ AtHub["err_put_usb"] = {"gud", "usb"}
    BY DEF AtHub
  <2>3. /\ Probe[p].next \in HubPlaces /\ Probe[p].set \subseteq Resources
        /\ Probe[p].fail # "" => Probe[p].fail \in HubPlaces
        /\ "node" \in Probe[p].set => Probe[p].next \in UsedPlaces
    BY <2>1, Places DEF Resources, Buffers, ModeConfig, UsedPlaces
  <2> QED  BY <1>5, <2>1, <2>2, <2>3 DEF BufferRows
<1>6. CASE p = "scratch"
  <2>1. Probe[p].set = {"scratch"} /\ Probe[p].next = "bulk"
        /\ Probe[p].fail = "err_workmem"
    BY <1>6 DEF Probe, GudProbe, BuffersInit, DrmInit, PipeInit, Join, Row
  <2>2. /\ AtHub["scratch"] = {"gud", "usb", "workmem"}
        /\ AtHub["bulk"] = {"gud", "usb", "workmem", "scratch"}
        /\ AtHub["err_workmem"] = {"gud", "usb", "workmem"}
    BY DEF AtHub
  <2>3. /\ Probe[p].next \in HubPlaces /\ Probe[p].set \subseteq Resources
        /\ Probe[p].fail # "" => Probe[p].fail \in HubPlaces
        /\ "node" \in Probe[p].set => Probe[p].next \in UsedPlaces
    BY <2>1, Places DEF Resources, Buffers, ModeConfig, UsedPlaces
  <2> QED  BY <1>6, <2>1, <2>2, <2>3 DEF BufferRows
<1>7. CASE p = "bulk"
  <2>1. Probe[p].set = {"bulk"} /\ Probe[p].next = "urb"
        /\ Probe[p].fail = "err_scratch"
    BY <1>7 DEF Probe, GudProbe, BuffersInit, DrmInit, PipeInit, Join, Row
  <2>2. /\ AtHub["bulk"] = {"gud", "usb", "workmem", "scratch"}
        /\ AtHub["urb"] = {"gud", "usb", "workmem", "scratch", "bulk"}
        /\ AtHub["err_scratch"] = {"gud", "usb", "workmem", "scratch"}
    BY DEF AtHub
  <2>3. /\ Probe[p].next \in HubPlaces /\ Probe[p].set \subseteq Resources
        /\ Probe[p].fail # "" => Probe[p].fail \in HubPlaces
        /\ "node" \in Probe[p].set => Probe[p].next \in UsedPlaces
    BY <2>1, Places DEF Resources, Buffers, ModeConfig, UsedPlaces
  <2> QED  BY <1>7, <2>1, <2>2, <2>3 DEF BufferRows
<1>8. CASE p = "urb"
  <2>1. Probe[p].set = {"urb"} /\ Probe[p].next = "drm"
        /\ Probe[p].fail = "err_bulk"
    BY <1>8 DEF Probe, GudProbe, BuffersInit, DrmInit, PipeInit, Join, Row
  <2>2. /\ AtHub["urb"] = {"gud", "usb", "workmem", "scratch", "bulk"}
        /\ AtHub["drm"] = Ready
        /\ AtHub["err_bulk"] = {"gud", "usb", "workmem", "scratch", "bulk"}
    BY DEF AtHub
  <2>3. /\ Probe[p].next \in HubPlaces /\ Probe[p].set \subseteq Resources
        /\ Probe[p].fail # "" => Probe[p].fail \in HubPlaces
        /\ "node" \in Probe[p].set => Probe[p].next \in UsedPlaces
    BY <2>1, Places DEF Resources, Buffers, ModeConfig, UsedPlaces
  <2> QED  BY <1>8, <2>1, <2>2, <2>3 DEF BufferRows, Ready, XBuffers, Buffers
<1>9. CASE p = "drm"
  <2>1. Probe[p].set = {"drm"} /\ Probe[p].next = "config"
        /\ Probe[p].fail = "err_free_xdisp"
    BY <1>9 DEF Probe, GudProbe, BuffersInit, DrmInit, PipeInit, Join, Row
  <2>2. /\ AtHub["drm"] = Ready
        /\ AtHub["config"] = Ready \cup {"drm"}
        /\ AtHub["err_free_xdisp"] = Ready
    BY DEF AtHub
  <2>3. /\ Probe[p].next \in HubPlaces /\ Probe[p].set \subseteq Resources
        /\ Probe[p].fail # "" => Probe[p].fail \in HubPlaces
        /\ "node" \in Probe[p].set => Probe[p].next \in UsedPlaces
    BY <2>1, Places DEF Resources, Buffers, ModeConfig, UsedPlaces
  <2> QED  BY <1>9, <2>1, <2>2, <2>3 DEF BufferRows, Ready, XBuffers, Buffers
<1>10. CASE p = "config"
  <2>1. Probe[p].set = {"config"} /\ Probe[p].next = "connector"
        /\ Probe[p].fail = ""
    BY <1>10 DEF Probe, GudProbe, BuffersInit, DrmInit, PipeInit, Join, Row
  <2>2. /\ AtHub["config"] = Ready \cup {"drm"}
        /\ AtHub["connector"] = Ready \cup {"drm", "config"}
    BY DEF AtHub
  <2>3. /\ Probe[p].next \in HubPlaces /\ Probe[p].set \subseteq Resources
        /\ Probe[p].fail # "" => Probe[p].fail \in HubPlaces
        /\ "node" \in Probe[p].set => Probe[p].next \in UsedPlaces
    BY <2>1, Places DEF Resources, Buffers, ModeConfig, UsedPlaces
  <2> QED  BY <1>10, <2>1, <2>2, <2>3 DEF BufferRows, Ready, XBuffers, Buffers
<1>11. CASE p = "connector"
  <2>1. Probe[p].set = {"connector"} /\ Probe[p].next = "pipe"
        /\ Probe[p].fail = "err_connector"
    BY <1>11 DEF Probe, GudProbe, BuffersInit, DrmInit, PipeInit, Join, Row
  <2>2. /\ AtHub["connector"] = Ready \cup {"drm", "config"}
        /\ AtHub["pipe"] = Ready \cup {"drm", "config", "connector"}
        /\ AtHub["err_connector"] = Ready \cup {"drm", "config"}
    BY DEF AtHub
  <2>3. /\ Probe[p].next \in HubPlaces /\ Probe[p].set \subseteq Resources
        /\ Probe[p].fail # "" => Probe[p].fail \in HubPlaces
        /\ "node" \in Probe[p].set => Probe[p].next \in UsedPlaces
    BY <2>1, Places DEF Resources, Buffers, ModeConfig, UsedPlaces
  <2> QED  BY <1>11, <2>1, <2>2, <2>3 DEF BufferRows, Ready, XBuffers, Buffers
<1>12. CASE p = "pipe"
  <2>1. Probe[p].set = {"pipe"} /\ Probe[p].next = "register"
        /\ Probe[p].fail = "err_pipe"
    BY <1>12 DEF Probe, GudProbe, BuffersInit, DrmInit, PipeInit, Join, Row
  <2>2. /\ AtHub["pipe"] = Ready \cup {"drm", "config", "connector"}
        /\ AtHub["register"] = Built
        /\ AtHub["err_pipe"] = Ready \cup {"drm", "config", "connector"}
    BY DEF AtHub
  <2>3. /\ Probe[p].next \in HubPlaces /\ Probe[p].set \subseteq Resources
        /\ Probe[p].fail # "" => Probe[p].fail \in HubPlaces
        /\ "node" \in Probe[p].set => Probe[p].next \in UsedPlaces
    BY <2>1, Places DEF Resources, Buffers, ModeConfig, UsedPlaces
  <2> QED  BY <1>12, <2>1, <2>2, <2>3 DEF BufferRows, Ready, Built, XBuffers, Buffers, ModeConfig
<1>13. CASE p = "register"
  <2>1. Probe[p].set = {"node"} /\ Probe[p].next = "intfdata"
        /\ Probe[p].fail = "err_mode_config"
    BY <1>13 DEF Probe, GudProbe, BuffersInit, DrmInit, PipeInit, Join, Row
  <2>2. /\ AtHub["register"] = Built
        /\ AtHub["intfdata"] = Built \cup {"node"}
        /\ AtHub["err_mode_config"] = Built
    BY DEF AtHub
  <2>3. /\ Probe[p].next \in HubPlaces /\ Probe[p].set \subseteq Resources
        /\ Probe[p].fail # "" => Probe[p].fail \in HubPlaces
        /\ "node" \in Probe[p].set => Probe[p].next \in UsedPlaces
    BY <2>1, Places DEF Resources, Buffers, ModeConfig, UsedPlaces
  <2> QED  BY <1>13, <2>1, <2>2, <2>3 DEF BufferRows, Ready, Built, XBuffers, Buffers, ModeConfig
<1> QED  BY <1>1, <1>2, <1>3, <1>4, <1>5, <1>6, <1>7, <1>8, <1>9, <1>10, <1>11, <1>12, <1>13, Domains

\* So does a row of the error labels, which give up only what is held.
LEMMA UnwindTable ==
  ASSUME NEW p \in DOMAIN Unwind, p \in BufferRows => xdisp
  PROVE  /\ AtHub[Unwind[p].next] = AtHub[p] \ Unwind[p].set
         /\ Unwind[p].set \subseteq AtHub[p]
         /\ Unwind[p].next \in HubPlaces
         /\ Unwind[p].next \in BufferRows => xdisp
<1>1. CASE p = "err_bulk"
  <2>1. Unwind[p].set = {"bulk"} /\ Unwind[p].next = "err_scratch"
    BY <1>1 DEF Unwind, BuffersUnwind, PipeUnwind, DrmUnwind, ProbeUnwind,
                 Join, Row, XBuffers
  <2>2. AtHub["err_bulk"] = {"gud", "usb", "workmem", "scratch", "bulk"} /\ AtHub["err_scratch"] = {"gud", "usb", "workmem", "scratch"}
    BY DEF AtHub
  <2> QED  BY <1>1, <2>1, <2>2, Places DEF BufferRows
<1>2. CASE p = "err_scratch"
  <2>1. Unwind[p].set = {"scratch"} /\ Unwind[p].next = "err_workmem"
    BY <1>2 DEF Unwind, BuffersUnwind, PipeUnwind, DrmUnwind, ProbeUnwind,
                 Join, Row, XBuffers
  <2>2. AtHub["err_scratch"] = {"gud", "usb", "workmem", "scratch"} /\ AtHub["err_workmem"] = {"gud", "usb", "workmem"}
    BY DEF AtHub
  <2> QED  BY <1>2, <2>1, <2>2, Places DEF BufferRows
<1>3. CASE p = "err_workmem"
  <2>1. Unwind[p].set = {"workmem"} /\ Unwind[p].next = "err_put_usb"
    BY <1>3 DEF Unwind, BuffersUnwind, PipeUnwind, DrmUnwind, ProbeUnwind,
                 Join, Row, XBuffers
  <2>2. AtHub["err_workmem"] = {"gud", "usb", "workmem"} /\ AtHub["err_put_usb"] = {"gud", "usb"}
    BY DEF AtHub
  <2> QED  BY <1>3, <2>1, <2>2, Places DEF BufferRows
<1>4. CASE p = "err_connector"
  <2>1. Unwind[p].set = {"config"} /\ Unwind[p].next = "err_unref"
    BY <1>4 DEF Unwind, BuffersUnwind, PipeUnwind, DrmUnwind, ProbeUnwind,
                 Join, Row, XBuffers
  <2>2. AtHub["err_connector"] = Ready \cup {"drm", "config"} /\ AtHub["err_unref"] = Ready \cup {"drm"}
    BY DEF AtHub
  <2> QED  BY <1>4, <2>1, <2>2, Places DEF BufferRows, Ready, XBuffers, Buffers
<1>5. CASE p = "err_pipe"
  <2>1. Unwind[p].set = {"config", "connector"} /\ Unwind[p].next = "err_unref"
    BY <1>5 DEF Unwind, BuffersUnwind, PipeUnwind, DrmUnwind, ProbeUnwind,
                 Join, Row, XBuffers
  <2>2. AtHub["err_pipe"] = Ready \cup {"drm", "config", "connector"} /\ AtHub["err_unref"] = Ready \cup {"drm"}
    BY DEF AtHub
  <2> QED  BY <1>5, <2>1, <2>2, Places DEF BufferRows, Ready, XBuffers, Buffers
<1>6. CASE p = "err_mode_config"
  <2>1. Unwind[p].set = ModeConfig /\ Unwind[p].next = "err_unref"
    BY <1>6 DEF Unwind, BuffersUnwind, PipeUnwind, DrmUnwind, ProbeUnwind,
                 Join, Row, XBuffers
  <2>2. AtHub["err_mode_config"] = Built /\ AtHub["err_unref"] = Ready \cup {"drm"}
    BY DEF AtHub
  <2> QED  BY <1>6, <2>1, <2>2, Places DEF BufferRows, Ready, Built, XBuffers, Buffers, ModeConfig
<1>7. CASE p = "err_unref"
  <2>1. Unwind[p].set = {"drm"} /\ Unwind[p].next = "err_free_xdisp"
    BY <1>7 DEF Unwind, BuffersUnwind, PipeUnwind, DrmUnwind, ProbeUnwind,
                 Join, Row, XBuffers
  <2>2. AtHub["err_unref"] = Ready \cup {"drm"} /\ AtHub["err_free_xdisp"] = Ready
    BY DEF AtHub
  <2> QED  BY <1>7, <2>1, <2>2, Places DEF BufferRows, Ready, XBuffers, Buffers
<1>8. CASE p = "err_free_xdisp"
  <2>1. Unwind[p].set = XBuffers /\ Unwind[p].next = "err_put_usb"
    BY <1>8 DEF Unwind, BuffersUnwind, PipeUnwind, DrmUnwind, ProbeUnwind,
                 Join, Row, XBuffers
  <2>2. AtHub["err_free_xdisp"] = Ready /\ AtHub["err_put_usb"] = {"gud", "usb"}
    BY DEF AtHub
  <2> QED  BY <1>8, <2>1, <2>2, Places DEF BufferRows, Ready, XBuffers, Buffers
<1>9. CASE p = "err_put_usb"
  <2>1. Unwind[p].set = {"usb", "gud"} /\ Unwind[p].next = "failed"
    BY <1>9 DEF Unwind, BuffersUnwind, PipeUnwind, DrmUnwind, ProbeUnwind,
                 Join, Row, XBuffers
  <2>2. AtHub["err_put_usb"] = {"gud", "usb"} /\ AtHub["failed"] = {}
    BY DEF AtHub
  <2> QED  BY <1>9, <2>1, <2>2, Places DEF BufferRows
<1> QED  BY <1>1, <1>2, <1>3, <1>4, <1>5, <1>6, <1>7, <1>8, <1>9, Domains

\* And a row of unload.
LEMMA UnloadTable ==
  ASSUME NEW p \in DOMAIN Unload
  PROVE  /\ AtFini[Unload[p].next] = AtFini[p] \ Unload[p].set
         /\ Unload[p].set \subseteq AtFini[p]
         /\ Unload[p].next \in DOMAIN Unload \cup {"done"}
<1>1. CASE p = "u_node"
  <2>1. Unload[p].set = {} /\ Unload[p].next = "u_config"
    BY <1>1 DEF Unload, Row, XBuffers
  <2>2. AtFini["u_node"] = Built /\ AtFini["u_config"] = Built
    BY DEF AtFini
  <2> QED  BY <1>1, <2>1, <2>2, Domains DEF Ready, Built, XBuffers, Buffers, ModeConfig
<1>2. CASE p = "u_config"
  <2>1. Unload[p].set = ModeConfig /\ Unload[p].next = "u_buffers"
    BY <1>2 DEF Unload, Row, XBuffers
  <2>2. AtFini["u_config"] = Built /\ AtFini["u_buffers"] = Ready \cup {"drm"}
    BY DEF AtFini
  <2> QED  BY <1>2, <2>1, <2>2, Domains DEF Ready, Built, XBuffers, Buffers, ModeConfig
<1>3. CASE p = "u_buffers"
  <2>1. Unload[p].set = XBuffers /\ Unload[p].next = "u_usb"
    BY <1>3 DEF Unload, Row, XBuffers
  <2>2. AtFini["u_buffers"] = Ready \cup {"drm"} /\ AtFini["u_usb"] = {"gud", "usb", "drm"}
    BY DEF AtFini
  <2> QED  BY <1>3, <2>1, <2>2, Domains DEF Ready, XBuffers, Buffers
<1>4. CASE p = "u_usb"
  <2>1. Unload[p].set = {"usb", "gud"} /\ Unload[p].next = "u_drm"
    BY <1>4 DEF Unload, Row, XBuffers
  <2>2. AtFini["u_usb"] = {"gud", "usb", "drm"} /\ AtFini["u_drm"] = {"drm"}
    BY DEF AtFini
  <2> QED  BY <1>4, <2>1, <2>2, Domains
<1>5. CASE p = "u_drm"
  <2>1. Unload[p].set = {"drm"} /\ Unload[p].next = "done"
    BY <1>5 DEF Unload, Row, XBuffers
  <2>2. AtFini["u_drm"] = {"drm"} /\ AtFini["done"] = {}
    BY DEF AtFini
  <2> QED  BY <1>5, <2>1, <2>2, Domains
<1> QED  BY <1>1, <1>2, <1>3, <1>4, <1>5, Domains

\* What is held while users may be inside, and when there is nothing left.
LEMMA Rest ==
  /\ \A h \in UsedPlaces : Built \subseteq AtHub[h]
  /\ AtHub["gud"] = {} /\ AtHub["failed"] = {} /\ AtFini["done"] = {}
  /\ AtHub["intfdata"] = AtHub["cancel"] /\ AtHub["cancel"] = AtHub["bound"]
  /\ AtHub["bound"] = AtHub["mark"] /\ AtHub["mark"] = AtHub["stop"]
  /\ AtHub["unplug"] = AtHub["stop"] \ {"node"} /\ AtHub["unplug"] = Built
  /\ AtHub["gone"] = Built /\ AtFini["u_node"] = Built
<1>1. /\ AtHub["intfdata"] = Built \cup {"node"} /\ AtHub["cancel"] = Built \cup {"node"}
      /\ AtHub["bound"] = Built \cup {"node"} /\ AtHub["mark"] = Built \cup {"node"}
      /\ AtHub["stop"] = Built \cup {"node"}
      /\ AtHub["unplug"] = Built /\ AtHub["gone"] = Built
  BY DEF AtHub
<1>2. AtHub["gud"] = {} /\ AtHub["failed"] = {}
  BY DEF AtHub
<1>3. AtFini["done"] = {} /\ AtFini["u_node"] = Built
  BY DEF AtFini
<1>4. "node" \notin Built
  BY DEF Built, Ready, XBuffers, Buffers, ModeConfig
<1> QED  BY <1>1, <1>2, <1>3, <1>4 DEF UsedPlaces

\* The tables depend on the variant only.
LEMMA Frame ==
  ASSUME xdisp' = xdisp
  PROVE  /\ AtHub' = AtHub /\ AtFini' = AtFini /\ XBuffers' = XBuffers
         /\ HubPlaces' = HubPlaces /\ (DOMAIN Unload)' = DOMAIN Unload
<1>1. XBuffers' = XBuffers
  BY DEF XBuffers
<1>2. Ready' = Ready /\ Built' = Built
  BY <1>1 DEF Ready, Built
<1>3. AtHub' = AtHub
  BY <1>2 DEF AtHub
<1>4. AtFini' = AtFini
  BY <1>2 DEF AtFini
<1>5. Unload' = Unload /\ Probe' = Probe /\ Unwind' = Unwind
  BY DEF Unload, Probe, GudProbe, BuffersInit, DrmInit, PipeInit, Unwind,
     BuffersUnwind, PipeUnwind, DrmUnwind, ProbeUnwind, Join, Row
<1>6. HubPlaces' = HubPlaces
  BY <1>5 DEF HubPlaces
<1> QED  BY <1>1, <1>3, <1>4, <1>5, <1>6

-----------------------------------------------------------------------------
LEMMA InitInv == Init => DeviceInv
<1> SUFFICES ASSUME Init PROVE DeviceInv
  OBVIOUS
<1>1. TypeOK
  <2>1. hub \in HubPlaces
    BY Places DEF Init
  <2>2. user \in [Users -> UserPlaces] /\ \A u \in Users : lock = u <=> user[u] = "message"
    BY DeviceAssumption DEF Init, UserPlaces
  <2>3. opens \in 0..MaxOpens
    BY DeviceAssumption DEF Init
  <2> QED  BY <2>1, <2>2, <2>3 DEF Init, TypeOK
<1>2. HeldInv
  BY Rest DEF Init, HeldInv, BufferRows
<1> QED  BY <1>1, <1>2 DEF DeviceInv, UsersInv, Init, NoMessageAfterMark

\* The hub thread, up to the last line of probe or of its error labels.
LEMMA ProbeInv ==
  ASSUME DeviceInv, ProbeStep \/ ProbeFails \/ UnwindStep
  PROVE  DeviceInv'
<1> USE DEF DeviceInv
<1>1. /\ hub \notin UsedPlaces /\ fini = "none" /\ held = AtHub[hub]
      /\ hub \in BufferRows => xdisp
      /\ \A u \in Users : user[u] = "out"
      /\ "node" \notin held /\ ~unplugged
  <2>1. hub \notin UsedPlaces
    BY Domains DEF ProbeStep, ProbeFails, UnwindStep, UsedPlaces
  <2> QED  BY <2>1 DEF HeldInv, UsersInv, UsedPlaces
<1>2. xdisp' = xdisp /\ UNCHANGED <<intfdata, lock, disconnected, unplugged, opens, user, fini>>
  BY DEF ProbeStep, ProbeFails, UnwindStep
<1>3. /\ hub' \in HubPlaces /\ held' \subseteq Resources /\ lost' = lost
      /\ held' = AtHub[hub'] /\ (hub' \in BufferRows => xdisp)
      /\ "node" \in held' => hub' \in UsedPlaces
  <2>1. CASE ProbeStep
    BY <2>1, <1>1, ProbeTable DEF ProbeStep, TypeOK
  <2>2. CASE ProbeFails
    BY <2>2, <1>1, ProbeTable DEF ProbeFails, TypeOK
  <2>3. CASE UnwindStep
    <3>1. Unwind[hub].set \subseteq held
      BY <2>3, <1>1, UnwindTable DEF UnwindStep
    <3>2. lost' = (lost \/ ~(Unwind[hub].set \subseteq held)) /\ held' = held \ Unwind[hub].set
          /\ hub' = Unwind[hub].next /\ hub \in DOMAIN Unwind
      BY <2>3 DEF UnwindStep, Drop
    <3>3. lost' = lost
      BY <3>1, <3>2 DEF TypeOK
    <3> QED  BY <3>2, <3>3, <1>1, UnwindTable DEF TypeOK
  <2> QED  BY <2>1, <2>2, <2>3
<1>4. TypeOK'
  BY <1>2, <1>3, Frame DEF TypeOK
<1>5. HeldInv'
  BY <1>1, <1>2, <1>3, Frame DEF HeldInv
<1>6. UsersInv'
  BY <1>1, <1>2, <1>3 DEF UsersInv
<1> QED  BY <1>2, <1>3, <1>4, <1>5, <1>6 DEF NoMessageAfterMark

\* The hub thread from there on.  Marking the device needs the lock.
LEMMA HubInv ==
  ASSUME DeviceInv, SetIntfdata \/ ReconnectCancel \/ Disconnect \/ Mark \/ StopAndArm
  PROVE  DeviceInv'
<1> USE DEF DeviceInv
<1>1. /\ UNCHANGED <<xdisp, lost, lock, unplugged, opens, user, fini>>
      /\ hub \in UsedPlaces \ {"gone"} /\ hub' \in UsedPlaces \ {"gone"}
      /\ disconnected' # disconnected => lock = "none"
      /\ held' = IF hub' = "unplug" THEN held \ {"node"} ELSE held
      /\ hub' = "unplug" <=> hub = "stop"
      /\ intfdata' \in BOOLEAN /\ disconnected' \in BOOLEAN
  <2>1. CASE SetIntfdata
    BY <2>1 DEF SetIntfdata, UsedPlaces, TypeOK
  <2>2. CASE ReconnectCancel
    BY <2>2 DEF ReconnectCancel, UsedPlaces, TypeOK
  <2>3. CASE Disconnect
    BY <2>3 DEF Disconnect, UsedPlaces, TypeOK
  <2>4. CASE Mark
    BY <2>4 DEF Mark, UsedPlaces, TypeOK
  <2>5. CASE StopAndArm
    BY <2>5 DEF StopAndArm, UsedPlaces, TypeOK
  <2> QED  BY <2>1, <2>2, <2>3, <2>4, <2>5
<1>2. fini = "none" /\ held = AtHub[hub] /\ hub' \notin BufferRows
  BY <1>1 DEF HeldInv, UsedPlaces, BufferRows
<1>3. held' = AtHub[hub']
  BY <1>2, Rest DEF SetIntfdata, ReconnectCancel, Disconnect, Mark, StopAndArm
<1>4. hub' \in HubPlaces
  BY <1>1, Places DEF UsedPlaces
<1>5. TypeOK'
  BY <1>1, <1>4, Frame DEF TypeOK
<1>6. HeldInv'
  BY <1>1, <1>2, <1>3, Frame DEF HeldInv
<1>7. UsersInv'
  BY <1>1, <1>2 DEF UsersInv
<1>8. NoMessageAfterMark'
  BY <1>1, DeviceAssumption DEF NoMessageAfterMark, TypeOK
<1> QED  BY <1>1, <1>5, <1>6, <1>7, <1>8

\* Unload starts when the device is unplugged and nobody has it open.
LEMMA StartInv ==
  ASSUME DeviceInv, UNCHANGED <<xdisp, lost, lock, disconnected, intfdata, held>>,
         fini = "none",
         \/ hub = "unplug" /\ user' = user /\ unplugged' = TRUE
         \/ unplugged /\ unplugged' = unplugged /\ hub = "gone",
         hub' = "gone", opens' = opens,
         user' \in [Users -> UserPlaces],
         \A u \in Users : user'[u] = "message" <=> user[u] = "message",
         \A u \in Users : user'[u] # "out" => user[u] # "out",
         fini' = "none" \/ (fini' = "u_node" /\ \A u \in Users : user'[u] = "out")
  PROVE  DeviceInv'
<1> USE DEF DeviceInv
<1>1. held = Built
  BY Rest DEF HeldInv
<1>2. TypeOK'
  BY Places, Domains, Frame DEF TypeOK
<1>3. HeldInv'
  BY <1>1, Rest, Frame DEF HeldInv, BufferRows
<1>4. "node" \notin held
  BY <1>1 DEF Built, Ready, XBuffers, Buffers, ModeConfig
<1>5. UsersInv'
  BY <1>4 DEF UsersInv, UsedPlaces
<1> QED  BY <1>2, <1>3, <1>5 DEF NoMessageAfterMark

LEMMA UnplugInv == ASSUME DeviceInv, Unplug PROVE DeviceInv'
  BY StartInv DEF Unplug, DeviceInv, TypeOK

LEMMA CloseInv == ASSUME DeviceInv, NEW u \in Users, Close(u) PROVE DeviceInv'
<1> USE DEF DeviceInv
<1>1. /\ user' = [user EXCEPT ![u] = "out"] /\ user[u] = "in" /\ fini = "none"
      /\ UNCHANGED <<xdisp, hub, intfdata, unplugged, disconnected, held, lost, lock, opens>>
  BY DEF Close, GoUser, HubVars
<1>2. user' \in [Users -> UserPlaces]
      /\ \A v \in Users : /\ user'[v] # "out" => user[v] # "out"
                          /\ user'[v] = "message" <=> user[v] = "message"
  BY <1>1 DEF TypeOK, UserPlaces
<1>3. CASE unplugged
  <2>1. hub = "gone"
    BY <1>3 DEF UsersInv
  <2>2. fini' = "none" \/ (fini' = "u_node" /\ \A v \in Users : user'[v] = "out")
    BY <1>1 DEF Close, TypeOK
  <2> QED  BY <1>1, <1>2, <1>3, <2>1, <2>2, StartInv
<1>4. CASE ~unplugged
  <2>1. fini' = fini
    BY <1>1, <1>4 DEF Close
  <2>2. TypeOK'
    BY <1>1, <1>2, <2>1, Frame DEF TypeOK
  <2>3. HeldInv'
    BY <1>1, <2>1, Frame DEF HeldInv
  <2>4. UsersInv'
    BY <1>1, <1>2, <2>1 DEF UsersInv
  <2> QED  BY <1>1, <1>2, <2>2, <2>3, <2>4 DEF NoMessageAfterMark
<1> QED  BY <1>3, <1>4

LEMMA UnloadInv == ASSUME DeviceInv, UnloadStep PROVE DeviceInv'
<1> USE DEF DeviceInv
<1>1. /\ UNCHANGED <<xdisp, hub, intfdata, lock, disconnected, unplugged, opens, user>>
      /\ fini \in DOMAIN Unload /\ fini' = Unload[fini].next
      /\ held' = held \ Unload[fini].set /\ lost' = (lost \/ ~(Unload[fini].set \subseteq held))
  BY DEF UnloadStep, Drop
<1>2. fini # "none" /\ held = AtFini[fini]
  BY <1>1, Domains DEF HeldInv
<1>3. held' = AtFini[fini'] /\ fini' \in DOMAIN Unload \cup {"done"} /\ fini' # "none"
      /\ Unload[fini].set \subseteq held
  BY <1>1, <1>2, UnloadTable, Domains
<1>4. lost' = lost
  BY <1>1, <1>3 DEF TypeOK
<1>5. TypeOK'
  BY <1>1, <1>3, <1>4, Domains, Frame DEF TypeOK
<1>6. HeldInv'
  BY <1>1, <1>2, <1>3, Frame DEF HeldInv
<1>7. UsersInv'
  BY <1>1, <1>2 DEF UsersInv
<1> QED  BY <1>1, <1>4, <1>5, <1>6, <1>7 DEF NoMessageAfterMark

\* A user goes from one place inside to another, and takes or gives up the lock.
LEMMA UserInv ==
  ASSUME DeviceInv, NEW u \in Users,
         UserStep(u) \/ Open(u) \/ Ioctl(u) \/ GetConnector(u)
  PROVE  DeviceInv'
<1> USE DEF DeviceInv
<1>1. UNCHANGED <<xdisp, hub, intfdata, unplugged, disconnected, held, lost, fini>>
  BY DEF UserStep, Open, Ioctl, GetConnector, IoctlEnds, Detect, AllocModes, LockModes,
         ModesAnswer, AddModes, OtherVars, HubVars
<1>2. PICK place \in UserPlaces \ {"out"} : user' = [user EXCEPT ![u] = place]
  BY DEF UserStep, Open, Ioctl, GetConnector, IoctlEnds, Detect, AllocModes, LockModes,
         ModesAnswer, AddModes, GoUser, UserPlaces
<1>3. user[u] = "out" => "node" \in held /\ fini = "none"
  BY DEF UserStep, Open, Ioctl, GetConnector, IoctlEnds, Detect, AllocModes, LockModes,
         ModesAnswer, AddModes
<1>4. hub \in UsedPlaces /\ fini = "none"
  BY <1>3 DEF UsersInv
<1>5. opens' \in 0..MaxOpens
  BY DeviceAssumption DEF UserStep, Open, Ioctl, GetConnector, IoctlEnds, Detect, AllocModes,
         LockModes, ModesAnswer, AddModes, OtherVars, TypeOK
<1>6. \/ place = "message" /\ lock = "none" /\ lock' = u /\ ~disconnected
      \/ place # "message" /\ user[u] = "message" /\ lock' = "none"
      \/ place # "message" /\ user[u] # "message" /\ lock' = lock
  <2>1. user'[u] = place
    BY <1>2 DEF TypeOK
  <2> QED  BY <2>1 DEF UserStep, Open, Ioctl, GetConnector, IoctlEnds, Detect, AllocModes,
         LockModes, ModesAnswer, AddModes, GoUser, TypeOK
<1>7. lock' \in Users \cup {"none"} /\ \A v \in Users : lock' = v <=> user'[v] = "message"
  BY <1>2, <1>6, DeviceAssumption DEF TypeOK
<1>8. TypeOK'
  BY <1>1, <1>2, <1>5, <1>7, Frame DEF TypeOK
<1>9. HeldInv'
  BY <1>1, Frame DEF HeldInv
<1>10. UsersInv'
  BY <1>1, <1>2, <1>4 DEF UsersInv, TypeOK
<1>11. NoMessageAfterMark'
  BY <1>1, <1>2, <1>6 DEF NoMessageAfterMark, TypeOK
<1> QED  BY <1>1, <1>8, <1>9, <1>10, <1>11

LEMMA Inductive == DeviceInv /\ [Next]_vars => DeviceInv'
<1> SUFFICES ASSUME DeviceInv, [Next]_vars PROVE DeviceInv'
  OBVIOUS
<1>1. CASE UNCHANGED vars
  <2>1. TypeOK'
    BY <1>1, Frame DEF vars, TypeOK, DeviceInv
  <2>2. HeldInv'
    BY <1>1, Frame DEF vars, HeldInv, DeviceInv
  <2> QED  BY <1>1, <2>1, <2>2 DEF vars, UsersInv, DeviceInv, NoMessageAfterMark
<1>2. CASE HubStep \/ Disconnect
  BY <1>2, ProbeInv, HubInv, UnplugInv DEF HubStep
<1>3. CASE UnloadStep
  BY <1>3, UnloadInv
<1>4. CASE \E u \in Users : UserStep(u) \/ Open(u) \/ Ioctl(u) \/ GetConnector(u) \/ Close(u)
  BY <1>4, UserInv, CloseInv
<1> QED  BY <1>1, <1>2, <1>3, <1>4 DEF Next, Over

LEMMA Always == Spec => []DeviceInv
  BY InitInv, Inductive, PTL DEF Spec

-----------------------------------------------------------------------------
\* Every variable keeps to its values, and gud_device.lock is held by a user of
\* gud_connector_get_modes exactly while its request is made.
THEOREM TypeCorrect == Spec => []TypeOK
<1>1. DeviceInv => TypeOK
  BY DEF DeviceInv
<1> QED  BY <1>1, Always, PTL

\* Whatever step of probe fails, and whoever unloads the device at last, all that
\* was acquired is given up, and nothing twice.
THEOREM NothingIsLost == Spec => []NothingLeaks
<1>1. DeviceInv => NothingLeaks
  BY Rest DEF DeviceInv, HeldInv, NothingLeaks
<1> QED  BY <1>1, Always, PTL

\* An ioctl finds the device and its buffers allocated to its end.
THEOREM UsersAreServed == Spec => []UsersServed
<1>1. ASSUME DeviceInv PROVE UsersServed
  <2>1. ASSUME NEW u \in Users, user[u] # "out" PROVE Built \subseteq held
    BY <1>1, <2>1, Rest DEF DeviceInv, HeldInv, UsersInv
  <2> QED  BY <2>1 DEF UsersServed, Built, Ready, XBuffers
<1> QED  BY <1>1, Always, PTL

\* No request for modes is on the wire once the device is marked.
THEOREM MessagesEndBeforeMark == Spec => []NoMessageAfterMark
<1>1. DeviceInv => NoMessageAfterMark
  BY DEF DeviceInv
<1> QED  BY <1>1, Always, PTL
=============================================================================
