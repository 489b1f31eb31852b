----------------------------- MODULE GpuMetrics -----------------------------
(* The rows an NVML session collects and their reduction,                      *)
(* src/vllm_tuner/profiling/nvml_session.py.  A row is [device, at, memory,    *)
(* busy, watts]; a sensor that did not answer reads Missing.  The reduction    *)
(* sorts the rows by time and device, which tell them apart: they are a set.   *)
EXTENDS TimeSeries

Sensors == {"memory", "busy", "watts"}

UnavailableRow(device, at) ==
  [device |-> device, at |-> at, memory |-> Missing, busy |-> Missing, watts |-> Missing]

RowAvailable(row) == \E f \in Sensors : row[f] # Missing

Devices(rows) == {row.device : row \in rows}
RowsOf(rows, device) == {row \in rows : row.device = device}
Instants(rows) == {row.at : row \in rows}

(* One device's readings over the window. *)
SummarizeDevice(rows, device) ==
  LET own == RowsOf(rows, device)
  IN  [available |-> \E row \in own : RowAvailable(row),
       memory |-> Summary([row \in own |-> row.memory]),
       energy |-> IntegratePower(own)]

(* The devices read at one instant: memory and power add up, utilisation is    *)
(* averaged, and a device that did not answer is left out of the total.        *)
At(rows, at, sensor) == {row \in rows : row.at = at /\ row[sensor] # Missing}

Combined(rows, at, sensor) ==
  LET read == At(rows, at, sensor)
      total == SumFunction([row \in read |-> row[sensor]])
  IN  IF read = {} THEN Missing
      ELSE IF sensor = "busy" THEN total \div Cardinality(read)
      ELSE total

Series(rows, sensor) == [at \in Instants(rows) |-> Combined(rows, at, sensor)]

(* Twice the joules of the devices that have any. *)
TotalEnergy(rows) ==
  LET known == {d \in Devices(rows) : SummarizeDevice(rows, d).energy # Missing}
  IN  IF known = {} THEN Missing
      ELSE SumFunction([d \in known |-> SummarizeDevice(rows, d).energy])

PeakMemory(rows) == Summary(Series(rows, "memory")).peak

PerToken(energy, outputTokens) ==
  IF energy = Missing \/ outputTokens = 0 THEN Missing ELSE <<energy, outputTokens>>

SummarizeGpu(rows, outputTokens) ==
  [available |-> \E row \in rows : RowAvailable(row),
   samples |-> Cardinality(rows),
   memory |-> Summary(Series(rows, "memory")).available,
   busy |-> Summary(Series(rows, "busy")).available,
   watts |-> Summary(Series(rows, "watts")).available,
   peakMemory |-> PeakMemory(rows),
   energy |-> TotalEnergy(rows),
   energyPerToken |-> PerToken(TotalEnergy(rows), outputTokens)]
=============================================================================
