\* The backpressure demo's "Produced: 50, Consumed: 50" against consumers
\* that stop at their first empty get: three values through a queue of
\* one, two consumers; rounds of two and three tasks on a pool of two.
CONSTANTS
    TaskCounts = {2, 3}
    Workers = 2
    Items = 3
    MaxSize = 1
    Consumers = {c1, c2}
SPECIFICATION Spec
PROPERTY AllConsumed
