------------------------------- MODULE GudGem -------------------------------
(***************************************************************************)
(* The memory of frames on the host: buffer objects, their page arrays and *)
(* kernel mappings, and the framebuffers on them.  The threads of one      *)
(* process share a file of the DRM node; each of them runs one ioctl at a  *)
(* time, in the steps in which it reads or writes what others may read.    *)
(*                                                                         *)
(* An object lives while it is referenced: by its handle, by framebuffers, *)
(* by mappings of the process and by ioctls that have looked it up.  Page  *)
(* arrays and kernel mappings are numbered, to tell an old one from a new.  *)
(***************************************************************************)
EXTENDS FrameLayout, FiniteSets

CONSTANTS
  Threads, Objects,
  DumbArgs,    \* arguments of DUMB_CREATE: [width, height, format]
  FbArgs,      \* arguments of ADDFB2: [width, height, format, pitch, offset]
  MaxMaps,     \* bound: mappings of an object at a time
  Overlap      \* two ioctls may ask for the pages of one object at a time

ASSUME GemAssumption ==
  /\ IsFiniteSet(Threads) /\ IsFiniteSet(Objects)
  /\ MaxMaps \in Nat /\ Overlap \in BOOLEAN
  /\ \A a \in DumbArgs \cup FbArgs :
       a.width \in Nat /\ a.height \in Nat /\ a.format \in Formats
  /\ \A a \in FbArgs : a.pitch \in Nat /\ a.offset \in Nat
  /\ 0 \notin Objects

VARIABLES
  ref,      \* drm_gem_object.refcount; 0: not allocated
  size,     \* drm_gem_object.size
  handle,   \* the file has a handle for the object
  pages,    \* gud_gem_object.pages: 0, ERR_PTR (-1), or the number of an array
  vaddr,    \* gud_gem_object.vaddr: 0, or the number of a mapping
  offset,   \* it has an mmap offset
  maps,     \* mappings of the process
  fb, fbref,  \* the framebuffer on the object, and its reference count
  userFb,   \* the file owns that framebuffer
  shown,    \* object of the plane's framebuffer, or 0
  arrays, kmaps,  \* arrays and mappings that exist
  at, obj   \* a thread's place, and its object

objVars == <<size, handle, offset, maps>>
fbVars  == <<fb, fbref, userFb, shown>>
memVars == <<pages, vaddr, arrays, kmaps>>
vars == <<objVars, fbVars, memVars, ref, at, obj>>

ErrPtr == -1
NoFb == [width |-> 0, height |-> 0, format |-> "rgb565", pitch |-> 0, offset |-> 0]

Init ==
  /\ ref = [o \in Objects |-> 0] /\ size = [o \in Objects |-> 0]
  /\ handle = [o \in Objects |-> FALSE] /\ offset = [o \in Objects |-> FALSE]
  /\ pages = [o \in Objects |-> 0] /\ vaddr = [o \in Objects |-> 0]
  /\ maps = [o \in Objects |-> 0]
  /\ fb = [o \in Objects |-> NoFb] /\ fbref = [o \in Objects |-> 0]
  /\ userFb = [o \in Objects |-> FALSE] /\ shown = 0
  /\ arrays = {} /\ kmaps = {}
  /\ at = [t \in Threads |-> "user"] /\ obj = [t \in Threads |-> 0]

Goto(t, place) == at' = [at EXCEPT ![t] = place]
Keep(t, o) == obj' = [obj EXCEPT ![t] = o]
Return(t) == Goto(t, "user") /\ Keep(t, 0)

-----------------------------------------------------------------------------
(* References.                                                              *)

Get(o) == ref' = [ref EXCEPT ![o] = @ + 1]

\* Mutant of Put: gud_gem_free_object forgets the pages.
PutMutant(o, n) ==
  /\ ref' = [ref EXCEPT ![o] = @ - n]
  /\ IF ref[o] = n
     THEN /\ kmaps' = kmaps \ {vaddr[o]} /\ UNCHANGED arrays
          /\ pages' = [pages EXCEPT ![o] = 0] /\ vaddr' = [vaddr EXCEPT ![o] = 0]
          /\ size' = [size EXCEPT ![o] = 0] /\ offset' = [offset EXCEPT ![o] = FALSE]
     ELSE UNCHANGED <<kmaps, arrays, pages, vaddr, size, offset>>

\* drm_gem_object_unreference_unlocked, n times: the last one runs
\* gud_gem_free_object.
Put(o, n) ==
  /\ ref' = [ref EXCEPT ![o] = @ - n]
  /\ IF ref[o] = n
     THEN /\ kmaps' = kmaps \ {vaddr[o]} /\ arrays' = arrays \ {pages[o]}
          /\ pages' = [pages EXCEPT ![o] = 0] /\ vaddr' = [vaddr EXCEPT ![o] = 0]
          /\ size' = [size EXCEPT ![o] = 0] /\ offset' = [offset EXCEPT ![o] = FALSE]
     ELSE UNCHANGED <<kmaps, arrays, pages, vaddr, size, offset>>

\* drm_framebuffer_unreference, n times: the last one runs gud_fb_destroy.
PutFb(o, n) ==
  /\ fbref' = [fbref EXCEPT ![o] = @ - n]
  /\ IF fbref[o] = n THEN fb' = [fb EXCEPT ![o] = NoFb] /\ Put(o, 1)
     ELSE UNCHANGED <<fb, ref, memVars, size, offset>>

Looked(t, o, place) == Get(o) /\ Goto(t, place) /\ Keep(t, o)
Committing == {"check", "vpages", "vget", "vtest", "vmap", "vset", "read", "swap"}
NoCommit == \A t \in Threads : at[t] \notin Committing

-----------------------------------------------------------------------------
(* gud_gem_dumb_create                                                      *)

Create(t, o, a) ==
  /\ at[t] = "user" /\ ref[o] = 0
  /\ DumbOk(a.width, a.height, a.format)
  /\ \A u \in Threads : obj[u] # o   \* slots of objects are not reused so soon
  /\ size' = [size EXCEPT ![o] = DumbSize(a.width, a.height, a.format)]
  /\ Looked(t, o, "handle")
  /\ UNCHANGED <<handle, offset, maps, fbVars, memVars>>

\* drm_gem_handle_create publishes a handle, or fails; then the object is freed.
CreateHandle(t) ==
  /\ at[t] = "handle"
  /\ \/ /\ handle' = [handle EXCEPT ![obj[t]] = TRUE] /\ Get(obj[t])
        /\ Goto(t, "unref") /\ UNCHANGED <<memVars, size, offset, obj>>
     \/ Put(obj[t], ref[obj[t]]) /\ Return(t) /\ UNCHANGED handle
  /\ UNCHANGED <<maps, fbVars>>

\* The creator's reference is dropped before the size is read; a program knows
\* the handle, and can close it, when the call has returned.
CreateReturn(t) ==
  /\ at[t] = "unref" /\ Put(obj[t], 1) /\ Return(t)
  /\ UNCHANGED <<handle, maps, fbVars>>

Known(o) == handle[o] /\ \A u \in Threads : obj[u] = o => at[u] # "unref"

\* DUMB_DESTROY
CloseHandle(t, o) ==
  /\ at[t] = "user" /\ Known(o)
  /\ handle' = [handle EXCEPT ![o] = FALSE] /\ Put(o, 1)
  /\ UNCHANGED <<maps, fbVars, at, obj>>

-----------------------------------------------------------------------------
(* gud_gem_get_pages, for the ioctl at the places <pages, get, test> and,   *)
(* when it returns without an error, <after>.                               *)

Paging == {"pages", "get", "test", "check", "vpages", "vget", "vtest"}
Alone(o) == Overlap \/ \A u \in Threads : obj[u] = o => at[u] \notin Paging

\* A number that nothing points to.
Fresh ==
  LET used == arrays \cup kmaps \cup {pages[o] : o \in Objects} \cup {vaddr[o] : o \in Objects}
  IN  CHOOSE n \in 1..(Cardinality(used) + 1) : n \notin used

CheckPages(t, here, get, after) ==
  /\ at[t] = here
  /\ Goto(t, IF pages[obj[t]] # 0 THEN after ELSE get)
  /\ UNCHANGED <<objVars, fbVars, memVars, ref, obj>>

\* obj->pages = drm_gem_get_pages(&obj->base)
GetPages(t, here, test) ==
  /\ at[t] = here
  /\ \/ arrays' = arrays \cup {Fresh} /\ pages' = [pages EXCEPT ![obj[t]] = Fresh]
     \/ pages' = [pages EXCEPT ![obj[t]] = ErrPtr] /\ UNCHANGED arrays
  /\ Goto(t, test)
  /\ UNCHANGED <<objVars, fbVars, vaddr, kmaps, ref, obj>>

\* Mutant of TestPages: the error pointer stays in obj->pages.
TestPagesMutant(t, here, failed, after) ==
  /\ at[t] = here
  /\ Goto(t, IF pages[obj[t]] = ErrPtr THEN failed ELSE after)
  /\ UNCHANGED <<objVars, fbVars, memVars, ref, obj>>

TestPages(t, here, failed, after) ==
  /\ at[t] = here
  /\ IF pages[obj[t]] = ErrPtr
     THEN pages' = [pages EXCEPT ![obj[t]] = 0] /\ Goto(t, failed)
     ELSE Goto(t, after) /\ UNCHANGED pages
  /\ UNCHANGED <<objVars, fbVars, vaddr, arrays, kmaps, ref, obj>>

-----------------------------------------------------------------------------
(* gud_gem_dumb_map_offset, and the mapping that it prepares.               *)

MapOffset(t, o) ==
  /\ at[t] = "user" /\ Known(o) /\ Alone(o) /\ Looked(t, o, "pages")
  /\ UNCHANGED <<objVars, fbVars, memVars>>

\* Mutant of MapUnref: an error returns without out_unref.
MapUnrefMutant(t) ==
  /\ at[t] \in {"offset", "fail"}
  /\ \/ /\ at[t] = "offset" /\ offset' = [offset EXCEPT ![obj[t]] = TRUE]
        /\ Put(obj[t], 1) /\ Return(t)
     \/ Return(t) /\ UNCHANGED <<ref, memVars, size, offset>>
  /\ UNCHANGED <<handle, maps, fbVars>>

\* drm_gem_create_mmap_offset, which may fail, and the end of the call.
MapUnref(t) ==
  /\ at[t] \in {"offset", "fail"}
  /\ \/ /\ at[t] = "offset" /\ offset' = [offset EXCEPT ![obj[t]] = TRUE]
        /\ Goto(t, "fail") /\ UNCHANGED <<ref, memVars, size, obj>>
     \/ Put(obj[t], 1) /\ Return(t)
  /\ UNCHANGED <<handle, maps, fbVars>>

\* gud_drm_gem_mmap: a mapping holds a reference; the address space may copy it.
Mmap(t, o) ==
  /\ at[t] = "user" /\ Known(o) /\ offset[o] /\ maps[o] < MaxMaps
  /\ maps' = [maps EXCEPT ![o] = @ + 1] /\ Get(o)
  /\ UNCHANGED <<size, handle, offset, fbVars, memVars, at, obj>>

\* gud_gem_fault reads obj->pages; it changes nothing that is modelled.
Munmap(t, o) ==
  /\ at[t] = "user" /\ maps[o] > 0
  /\ maps' = [maps EXCEPT ![o] = @ - 1] /\ Put(o, 1)
  /\ UNCHANGED <<handle, fbVars, at, obj>>

-----------------------------------------------------------------------------
(* Framebuffers.                                                            *)

\* gud_fb_create: the lookup, and then the checks and allocations.
AddFb(t, o) ==
  /\ at[t] = "user" /\ Known(o) /\ fbref[o] = 0
  /\ \A u \in Threads : obj[u] = o => at[u] # "fb"
  /\ Looked(t, o, "fb")
  /\ UNCHANGED <<objVars, fbVars, memVars>>

\* The size check, the allocation and drm_framebuffer_init, each of which may fail.
AddFbChecked(t, a) ==
  /\ at[t] = "fb"
  /\ \/ /\ FbOk(a, size[obj[t]])
        /\ fb' = [fb EXCEPT ![obj[t]] = a] /\ fbref' = [fbref EXCEPT ![obj[t]] = 1]
        /\ userFb' = [userFb EXCEPT ![obj[t]] = TRUE]
        /\ Return(t) /\ UNCHANGED <<ref, memVars, size, offset>>
     \/ Put(obj[t], 1) /\ Return(t) /\ UNCHANGED <<fb, fbref, userFb>>
  /\ UNCHANGED <<handle, maps, shown>>

\* RMFB of a framebuffer in use waits for the commit, and turns off the plane.
RmFb(t, o) ==
  /\ at[t] = "user" /\ userFb[o] /\ (fbref[o] > 1 => NoCommit)
  /\ userFb' = [userFb EXCEPT ![o] = FALSE]
  /\ shown' = IF shown = o THEN 0 ELSE shown
  /\ PutFb(o, IF shown = o THEN 2 ELSE 1)
  /\ UNCHANGED <<handle, maps, at, obj>>

\* A commit of the framebuffer: gud_pipe_check may refuse it.
Commit(t, o) ==
  /\ at[t] = "user" /\ userFb[o] /\ NoCommit /\ Alone(o)
  /\ fbref' = [fbref EXCEPT ![o] = @ + 1] /\ Keep(t, o) /\ Goto(t, "check")
  /\ UNCHANGED <<objVars, fb, userFb, shown, memVars, ref>>

Check(t) ==
  /\ at[t] = "check"
  /\ IF PitchOk(fb[obj[t]])
     THEN Goto(t, "vpages") /\ UNCHANGED <<fb, fbref, ref, memVars, size, offset, obj>>
     ELSE PutFb(obj[t], 1) /\ Return(t)
  /\ UNCHANGED <<handle, maps, userFb, shown>>

\* gud_gem_vmap, after gud_gem_get_pages.
CheckVaddr(t) ==
  /\ at[t] = "vmap" /\ Goto(t, IF vaddr[obj[t]] = 0 THEN "vset" ELSE "read")
  /\ UNCHANGED <<objVars, fbVars, memVars, ref, obj>>

Vmap(t) ==
  /\ at[t] = "vset"
  /\ \/ /\ kmaps' = kmaps \cup {Fresh} /\ vaddr' = [vaddr EXCEPT ![obj[t]] = Fresh]
        /\ Goto(t, "read")
     \/ Goto(t, "swap") /\ UNCHANGED <<kmaps, vaddr>>
  /\ UNCHANGED <<objVars, fbVars, pages, arrays, ref, obj>>

\* The frame has been read through the mapping.
Read(t) ==
  /\ at[t] = "read" /\ Goto(t, "swap")
  /\ UNCHANGED <<objVars, fbVars, memVars, ref, obj>>

\* The commit is over; the plane's old framebuffer is released.
Swap(t) ==
  /\ at[t] = "swap" /\ shown' = obj[t] /\ Return(t)
  /\ IF shown # 0 THEN PutFb(shown, 1)
                  ELSE UNCHANGED <<fb, fbref, ref, memVars, size, offset>>
  /\ UNCHANGED <<handle, maps, userFb>>

Ioctl(t) ==
  \/ CreateHandle(t) \/ CreateReturn(t)
  \/ CheckPages(t, "pages", "get", "offset") \/ GetPages(t, "get", "test")
  \/ TestPages(t, "test", "fail", "offset") \/ MapUnref(t)
  \/ CheckPages(t, "vpages", "vget", "vmap") \/ GetPages(t, "vget", "vtest")
  \/ TestPages(t, "vtest", "swap", "vmap")
  \/ \E a \in FbArgs : AddFbChecked(t, a)
  \/ Check(t) \/ CheckVaddr(t) \/ Vmap(t) \/ Read(t) \/ Swap(t)

Next ==
  \E t \in Threads :
    \/ Ioctl(t)
    \/ \E o \in Objects :
         \/ \E a \in DumbArgs : Create(t, o, a)
         \/ CloseHandle(t, o) \/ MapOffset(t, o) \/ Mmap(t, o) \/ Munmap(t, o)
         \/ AddFb(t, o) \/ RmFb(t, o) \/ Commit(t, o)

Spec == Init /\ [][Next]_vars

-----------------------------------------------------------------------------
Places == {"user", "handle", "unref", "pages", "get", "test", "offset", "fail", "fb"}
          \cup Committing

\* The values the variables take; a reference count is never negative.
TypeOK ==
  /\ ref \in [Objects -> Nat] /\ size \in [Objects -> 0..SizeMax]
  /\ handle \in [Objects -> BOOLEAN] /\ offset \in [Objects -> BOOLEAN]
  /\ pages \in [Objects -> Nat \cup {ErrPtr}] /\ vaddr \in [Objects -> Nat]
  /\ arrays \cup kmaps \subseteq Nat \ {0}
  /\ maps \in [Objects -> 0..MaxMaps] /\ fbref \in [Objects -> Nat]
  /\ fb \in [Objects -> FbArgs \cup {NoFb}] /\ userFb \in [Objects -> BOOLEAN]
  /\ shown \in Objects \cup {0}
  /\ at \in [Threads -> Places] /\ obj \in [Threads -> Objects \cup {0}]

\* The ioctls that hold a reference to the object itself.
Looking(o) == {t \in Threads : obj[t] = o /\ at[t] \notin Committing}
One(held) == IF held THEN 1 ELSE 0

\* An object's references are its handle, its framebuffer, its mappings and the
\* ioctls between lookup and unreference; a framebuffer's are the file, the plane
\* and a commit.  No error path of an ioctl drops one twice or keeps one.
RefsBalance ==
  \A o \in Objects :
    /\ ref[o] = One(handle[o]) + One(fbref[o] > 0) + maps[o] + Cardinality(Looking(o))
    /\ fbref[o] = One(userFb[o]) + One(shown = o)
                  + Cardinality({t \in Threads : obj[t] = o /\ at[t] \in Committing})

\* A page array or kernel mapping exists as long as it is used: by a fault in a
\* mapping of the process, and by the commit that reads the frame through it.
PagesLive ==
  /\ \A o \in Objects : maps[o] > 0 => pages[o] \in arrays
  /\ \A t \in Threads :
       /\ at[t] \in {"vmap", "vset", "read"} => pages[obj[t]] \in arrays
       /\ at[t] = "read" => vaddr[obj[t]] \in kmaps

\* Every page array and kernel mapping belongs to an object that lives, which
\* gud_gem_free_object will release: none is left behind.
NothingLeaks ==
  /\ \A a \in arrays : \E o \in Objects : ref[o] > 0 /\ pages[o] = a
  /\ \A k \in kmaps : \E o \in Objects : ref[o] > 0 /\ vaddr[o] = k

\* The frame that a commit reads lies within the kernel mapping: with the checks
\* of gud_fb_create and gud_pipe_check, the range check of gud_pipe_transfer
\* cannot fail for a frame that has a layout.
FrameInMapping ==
  \A t \in Threads : at[t] = "read" =>
    LET f == fb[obj[t]]
    IN  LayoutOk(f.width, f.height, f.format) =>
          RangeOk(f.offset, f.height * Line(f.width, f.format), size[obj[t]])
=============================================================================
