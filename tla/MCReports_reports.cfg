SPECIFICATION Spec
CONSTANTS
  beat = beat
  button = button
  job1 = job1
  job2 = job2
  click = click
  Schedulers = {beat, button}
  Jobs = {job1, job2}
  Clicks = {click}
  Periods = {0, 1, 2}
  MaxRetries = 1
  MaxTime = 2
  MaxDisturbed = 1
INVARIANTS  MailsBounded
 
CHECK_DEADLOCK FALSE
